---- MODULE Spec2Model ----
(***************************************************************************)
(* Model of the agentic orchestration loop of sukode:                      *)
(*   - ConversationManager (the Conversation Store): append + truncation,  *)
(*     sanitizeToolMessages, validateAndSanitizeConversationHistory;       *)
(*   - MessageFormatterService, ToolCallProcessorService,                  *)
(*     ResponseGeneratorService, ToolExecutor (as far as the loop sees     *)
(*     them);                                                              *)
(*   - AgentLoopService.executeAgentLoop.                                  *)
(*                                                                         *)
(* A message is a record with the four fields of ConversationMessage.      *)
(* An absent tool_calls field is the empty sequence, an absent             *)
(* tool_call_id is 0; tool call ids are positive numbers.  Indices of the  *)
(* transcript are 0-based in the operators that model index arithmetic of  *)
(* the source (At(h, i) is h[i] of the source).                            *)
(***************************************************************************)
EXTENDS Integers, Sequences, FiniteSets, TLC

VARIABLES
  history,        \* ConversationManager.conversationHistory
  prevHistory,    \* the transcript the last store operation worked on
  lastOp,         \* the last store operation applied (store specifications)
  ret,            \* the value the last store operation returned
  steps,          \* the number of store operations applied (store specifications)
  pc,             \* where executeAgentLoop stands: "idle", "loop", "chat", "tools"
  iterations,     \* executeAgentLoop: iterations
  lastError,      \* executeAgentLoop: lastError (its message, "null" for null)
  loopComplete,   \* executeAgentLoop: loopComplete
  finalResponse,  \* executeAgentLoop: finalResponse
  assistantMessage, \* executeAgentLoop: assistantMessage of the running iteration
  request,        \* the messages of the main createChatCompletion call in flight
  apiError,       \* the message of the error the last main call threw ("none")
  chatCalls,      \* main createChatCompletion calls made by the running invocation
  executed,       \* the tool calls handed to the tool executor in the last iteration
  confirmation,   \* the user's answer to the prompt of the last iteration ("none": no prompt)
  returned,       \* how the last invocation ended: "none", "value", "throw"
  queries,        \* invocations of executeAgentLoop started so far
  toolRounds,     \* assistant messages with tool calls and no done call so far
  apiErrors,      \* main calls that failed outside an outage so far
  outage,         \* the provider is down for the whole running invocation
  nextId,         \* the next tool call id the provider issues
  toolName,       \* executeToolWithTimeout: functionName of the call in flight ("none")
  toolRun,        \* the promise of executeTool: "idle", "running", "resolved", "threw"
  timer,          \* the timer of executeWithTimeout: "unset", "armed", "fired", "cleared"
  promise,        \* the promise of executeWithTimeout: Pending, or the value it holds
  resolveCalls,   \* calls of resolve made on that promise
  delivered,      \* what executeToolWithTimeout returned for the last call (Pending: not yet)
  toolRuns,       \* calls of executeToolWithTimeout made so far
  messageHistory, \* ChatViewProvider.messageHistory: the roles of the messages displayed
  inputDisabled,  \* webview page: userInput.disabled and sendButton.disabled
  toHost,         \* commands posted by the webview page, not yet received by the host
  toView,         \* what the host sent to the webview, not yet received by the page
  handlers,       \* position of each handleUserMessage call: "none", "sleep", "chat", "returned"
  contextFiles,   \* ContextFilesManager.contextFiles, in insertion order
  lastEvent,      \* payload of the last onDidUpdateContextFiles event
  eventCount,     \* onDidUpdateContextFiles events fired so far
  batch,          \* processToolCalls: the toolCalls argument of the call in progress
  batchResults,   \* processToolCalls: results
  processing,     \* processToolCalls: "idle", "running", "returned", "threw"
  implementations \* the calls of executeTool that have not completed, by their number

storeVars == <<prevHistory, lastOp, ret, steps>>

loopVars == <<pc, iterations, lastError, loopComplete, finalResponse, assistantMessage,
              request, apiError, chatCalls, executed, confirmation, returned, queries, toolRounds,
              apiErrors, outage, nextId>>

execVars == <<toolName, toolRun, timer, promise, resolveCalls, delivered, toolRuns,
              implementations>>

viewVars == <<messageHistory, inputDisabled, toHost, toView, handlers>>

ctxVars == <<contextFiles, lastEvent, eventCount>>

procVars == <<batch, batchResults, processing>>

vars == <<history, prevHistory, lastOp, ret, steps, pc, iterations, lastError,
          loopComplete, finalResponse, assistantMessage, request, apiError, chatCalls,
          executed, confirmation,
          returned, queries, toolRounds, apiErrors, outage, nextId,
          toolName, toolRun, timer, promise, resolveCalls, delivered, toolRuns,
          messageHistory, inputDisabled, toHost, toView, handlers,
          contextFiles, lastEvent, eventCount,
          batch, batchResults, processing, implementations>>

-----------------------------------------------------------------------------
(* Program constants *)

maxHistoryLength == 10

MAX_ITERATIONS == 10

MAX_PAYLOAD_SIZE == 100000

MAX_MESSAGES == 33

BREAKING_CHANGE_TOOLS == { "create_file", "update_file", "create_directory", "run_command" }

-----------------------------------------------------------------------------
(* Messages *)

ToolCall(id, name, arguments) ==
  [id |-> id, name |-> name, arguments |-> arguments]

UserMsg(c) ==
  [role |-> "user", content |-> c, tool_calls |-> <<>>, tool_call_id |-> 0]

AssistantMsg(c, calls) ==
  [role |-> "assistant", content |-> c, tool_calls |-> calls, tool_call_id |-> 0]

ToolMsg(id, c) ==
  [role |-> "tool", content |-> c, tool_calls |-> <<>>, tool_call_id |-> id]

SystemMsg(c) ==
  [role |-> "system", content |-> c, tool_calls |-> <<>>, tool_call_id |-> 0]

\* message.role === 'assistant' && message.tool_calls && message.tool_calls.length > 0
HasToolCalls(m) == m.role = "assistant" /\ Len(m.tool_calls) > 0

\* message.role === 'tool' && message.tool_call_id
IsToolResponse(m) == m.role = "tool" /\ m.tool_call_id # 0

CallIds(m) == { m.tool_calls[k].id : k \in DOMAIN m.tool_calls }

At(h, i) == h[i + 1]

Indices(h) == 0 .. (Len(h) - 1)

SetMax(S) == CHOOSE x \in S : \A y \in S : y <= x

\* The subsequence of h at the 0-based indices that are not in removed
RECURSIVE RemoveIndices(_, _)
RemoveIndices(h, removed) ==
  IF h = <<>> THEN <<>>
  ELSE LET n == Len(h)
           front == RemoveIndices(SubSeq(h, 1, n - 1), removed)
       IN IF (n - 1) \in removed THEN front ELSE Append(front, h[n])

-----------------------------------------------------------------------------
(* ConversationManager.safelyTruncateConversationHistory *)

\* toolCallMap.get(id) when the scan of step 1 stands at index i: the last
\* assistant message with tool calls before i that carries the id (-1: none)
ToolCallOwner(h, i) ==
  LET owners == { j \in 0 .. (i - 1) :
                    HasToolCalls(At(h, j)) /\ At(h, i).tool_call_id \in CallIds(At(h, j)) }
  IN IF owners = {} THEN -1 ELSE SetMax(owners)

\* toolResponseMap.get(a) || []
ResponseIndices(h, a) ==
  { i \in Indices(h) : IsToolResponse(At(h, i)) /\ ToolCallOwner(h, i) = a }

\* a variant of minimumToKeep: half of the maximum length
minimumToKeepHalf == maxHistoryLength \div 2

\* Math.floor(maxHistoryLength / 2) * 2
minimumToKeep == (maxHistoryLength \div 2) * 2

\* a variant of CutBlocked that lets every cut through
NeverBlocked(h, i) == FALSE

\* The test that makes the scan of step 2 break at the user message at i
CutBlocked(h, i) ==
  LET nextIndex == i + 1 IN
  /\ nextIndex < Len(h)
  /\ HasToolCalls(At(h, nextIndex))
  /\ SetMax(ResponseIndices(h, nextIndex) \cup {nextIndex}) >= Len(h) - minimumToKeep

\* a variant of TruncationScan that cuts the excess off, whatever message the
\* cut follows
CutAtExcess(h, i, safe) == Len(h) - maxHistoryLength

\* The for loop of step 2 from index i on, with safeRemovalPoint = safe
RECURSIVE TruncationScan(_, _, _)
TruncationScan(h, i, safe) ==
  LET excessMessages == Len(h) - maxHistoryLength IN
  IF i >= Len(h) - minimumToKeep THEN safe
  ELSE IF At(h, i).role = "user"
       THEN IF CutBlocked(h, i) THEN safe
            ELSE IF i + 1 >= excessMessages THEN i + 1
                 ELSE TruncationScan(h, i + 1, i + 1)
       ELSE IF safe >= excessMessages THEN safe
            ELSE TruncationScan(h, i + 1, safe)

\* a variant of SafeRemovalPoint that drops the oldest message of a transcript
\* that is full already
DropOldestWhenFull(h) == IF Len(h) >= maxHistoryLength THEN 1 ELSE 0

SafeRemovalPoint(h) ==
  IF Len(h) <= maxHistoryLength THEN 0 ELSE TruncationScan(h, 0, 0)

safelyTruncateConversationHistory(h) ==
  LET safeRemovalPoint == SafeRemovalPoint(h)
  IN IF safeRemovalPoint > 0 THEN SubSeq(h, safeRemovalPoint + 1, Len(h)) ELSE h

\* a variant of clearConversationHistory that keeps the transcript
keepConversationHistory(h) == h

\* ConversationManager.clearConversationHistory
clearConversationHistory(h) == <<>>

\* ConversationManager.addToConversationHistory: push, then truncate
addToConversationHistory(h, m) ==
  safelyTruncateConversationHistory(Append(h, m))

-----------------------------------------------------------------------------
(* ConversationManager.sanitizeToolMessages *)

\* keys of assistantToolCalls
AssistantToolCallIds(h) ==
  UNION { CallIds(At(h, i)) : i \in { j \in Indices(h) : HasToolCalls(At(h, j)) } }

\* assistantToolCalls.get(id): Map.set keeps the last assistant index
AssistantToolCallIndex(h, id) ==
  SetMax({ i \in Indices(h) : HasToolCalls(At(h, i)) /\ id \in CallIds(At(h, i)) })

\* keys of toolResponses
ToolResponseIds(h) ==
  { At(h, i).tool_call_id : i \in { j \in Indices(h) : IsToolResponse(At(h, j)) } }

orphanedToolResponses(h) ==
  { i \in Indices(h) :
      IsToolResponse(At(h, i)) /\ At(h, i).tool_call_id \notin AssistantToolCallIds(h) }

orphanedToolCalls(h) ==
  { AssistantToolCallIndex(h, id) : id \in AssistantToolCallIds(h) \ ToolResponseIds(h) }

\* the elements of a set of indices as a list
RECURSIVE ListOf(_)
ListOf(S) == IF S = {} THEN <<>> ELSE <<SetMax(S)>> \o ListOf(S \ {SetMax(S)})

\* list.sort((a, b) => b - a)
RECURSIVE InsertDescending(_, _)
InsertDescending(sorted, x) ==
  IF sorted = <<>> THEN <<x>>
  ELSE IF x >= Head(sorted) THEN <<x>> \o sorted
       ELSE <<Head(sorted)>> \o InsertDescending(Tail(sorted), x)

RECURSIVE SortDescending(_)
SortDescending(list) ==
  IF list = <<>> THEN <<>>
  ELSE InsertDescending(SortDescending(Tail(list)), Head(list))

\* [...orphanedToolResponses, ...Array.from(orphanedToolCalls)], sorted
allOrphanedIndices(h) ==
  SortDescending(ListOf(orphanedToolResponses(h)) \o ListOf(orphanedToolCalls(h)))

\* for (const index of indices) conversationHistory.splice(index, 1)
RECURSIVE SpliceEach(_, _)
SpliceEach(h, indices) ==
  IF indices = <<>> THEN h
  ELSE LET index == Head(indices)
       IN SpliceEach(SubSeq(h, 1, index) \o SubSeq(h, index + 2, Len(h)), Tail(indices))

sanitizeToolMessages(h) == SpliceEach(h, allOrphanedIndices(h))

\* a variant of sanitizeToolMessagesCount that counts the assistant messages
\* removed
sanitizeToolMessagesPairs(h) == Cardinality(orphanedToolCalls(h))

\* the number sanitizeToolMessages returns
sanitizeToolMessagesCount(h) == Len(allOrphanedIndices(h))

-----------------------------------------------------------------------------
(* ConversationManager.validateAndSanitizeConversationHistory *)

\* first pass: the look-back for the assistant message holding the tool call
\* of the tool message at i (-1: foundMatchingToolCall stays false)
matchingAssistantIndex(h, i) ==
  LET found == { j \in 0 .. (i - 1) :
                   /\ At(h, j).role = "assistant"
                   /\ At(h, i).tool_call_id \in CallIds(At(h, j)) }
  IN IF found = {} THEN -1 ELSE SetMax(found)

\* a variant of hasInterveningMessages that counts the tool messages between
\* the call and the response as well
hasMessagesBetween(h, i) == matchingAssistantIndex(h, i) + 1 < i

hasInterveningMessages(h, i) ==
  \E k \in (matchingAssistantIndex(h, i) + 1) .. (i - 1) : At(h, k).role # "tool"

FirstPassRemove(h) ==
  { i \in Indices(h) :
      /\ IsToolResponse(At(h, i))
      /\ \/ matchingAssistantIndex(h, i) = -1
         \/ hasInterveningMessages(h, i) }

\* second pass: the search for the response of call id of the assistant at i
\* stops at the first non-tool message
foundToolResponse(h, i, id) ==
  \E j \in (i + 1) .. (Len(h) - 1) :
     /\ At(h, j).role = "tool"
     /\ At(h, j).tool_call_id = id
     /\ \A k \in (i + 1) .. (j - 1) : At(h, k).role = "tool"

\* the ids of missingToolResponses of the assistant at i, in call order
missingToolResponses(h, i) ==
  LET Missing(tc) == ~foundToolResponse(h, i, tc.id)
      calls == SelectSeq(At(h, i).tool_calls, Missing)
  IN [k \in DOMAIN calls |-> calls[k].id]

\* the indices of messagesToFix
messagesToFix(h) ==
  { i \in Indices(h) : HasToolCalls(At(h, i)) /\ missingToolResponses(h, i) # <<>> }

\* tc => !tc.function || !tc.function.name || !tc.function.arguments
IncompleteToolCall(m) ==
  /\ HasToolCalls(m)
  /\ \E k \in DOMAIN m.tool_calls :
        m.tool_calls[k].name = "" \/ m.tool_calls[k].arguments = ""

IncompleteRemove(h) ==
  LET incomplete == { i \in Indices(h) : IncompleteToolCall(At(h, i)) }
  IN incomplete \cup
     { j \in Indices(h) :
         /\ IsToolResponse(At(h, j))
         /\ \E i \in incomplete : i < j /\ At(h, j).tool_call_id \in CallIds(At(h, i)) }

messagesToRemove(h) == FirstPassRemove(h) \cup IncompleteRemove(h)

PlaceholderContent == "Tool execution failed or timed out."

\* validatedHistory.splice(pos, 0, m)
InsertAt(h, pos, m) ==
  SubSeq(h, 1, pos) \o <<m>> \o SubSeq(h, pos + 1, Len(h))

\* the inner loop of the fourth pass: every placeholder goes to index + 1
RECURSIVE InsertPlaceholders(_, _, _, _)
InsertPlaceholders(cur, index, missing, k) ==
  IF k > Len(missing) THEN cur
  ELSE InsertPlaceholders(
         InsertAt(cur, index + 1, ToolMsg(missing[k], PlaceholderContent)),
         index, missing, k + 1)

\* the fourth pass: messagesToFix from the last entry to the first; the index
\* of an entry was computed before the removals of the third pass
RECURSIVE FourthPass(_, _, _)
FourthPass(cur, h, fixes) ==
  IF fixes = {} THEN cur
  ELSE LET index == SetMax(fixes)
           stillThere == /\ index < Len(cur)
                         /\ At(cur, index).role = "assistant"
                         /\ Len(At(cur, index).tool_calls) > 0
           next == IF stillThere
                   THEN InsertPlaceholders(cur, index, missingToolResponses(h, index), 1)
                   ELSE cur
       IN FourthPass(next, h, fixes \ {index})

validateAndSanitizeConversationHistory(h) ==
  FourthPass(RemoveIndices(h, messagesToRemove(h)), h, messagesToFix(h))

-----------------------------------------------------------------------------
(* The pairing invariant of a transcript (spec.md, sections 3 and 8) *)

\* the tool calls (message index, call index) with the id of the tool message at i
\* that stand before it
EarlierCalls(h, i) ==
  { jk \in (0 .. (i - 1)) \X (1 .. Len(h)) :
      /\ At(h, jk[1]).role = "assistant"
      /\ jk[2] \in DOMAIN At(h, jk[1]).tool_calls
      /\ At(h, jk[1]).tool_calls[jk[2]].id = At(h, i).tool_call_id }

\* the tool messages in the unbroken run of tool messages right after index j
ToolRun(h, j) ==
  { i \in (j + 1) .. (Len(h) - 1) : \A k \in (j + 1) .. i : At(h, k).role = "tool" }

ResponsesInRun(h, j, id) ==
  { i \in ToolRun(h, j) : At(h, i).tool_call_id = id }

EveryResponseHasOneCall(h) ==
  \A i \in Indices(h) :
     At(h, i).role = "tool" => Cardinality(EarlierCalls(h, i)) = 1

EveryCallHasOneResponse(h) ==
  \A j \in Indices(h) :
     At(h, j).role = "assistant" =>
        \A k \in DOMAIN At(h, j).tool_calls :
           Cardinality(ResponsesInRun(h, j, At(h, j).tool_calls[k].id)) = 1

PairingInvariant(h) == EveryResponseHasOneCall(h) /\ EveryCallHasOneResponse(h)

-----------------------------------------------------------------------------
(* What the environment of the loop can produce *)

\* the number of events of a run: invocations of executeAgentLoop, assistant
\* messages with tool calls and no done call, and main calls that fail with an
\* ordinary error while the provider is up (during an outage every main call
\* fails)
MaxEvents == 3

Events == queries + toolRounds + apiErrors

NoMessage == AssistantMsg("", <<>>)

WellFormedArguments == "{}"
MalformedArguments == "{"

\* JSON.parse(toolCall.function.arguments) succeeds
ParsesAsJSON(arguments) == arguments = WellFormedArguments

ParseErrorMessage == "Unexpected end of JSON input"

\* the tool calls the provider issues, without their ids
DoneCall == [name |-> "done", arguments |-> WellFormedArguments]
ListDirCall == [name |-> "list_dir", arguments |-> WellFormedArguments]
BadListDirCall == [name |-> "list_dir", arguments |-> MalformedArguments]
CreateFileCall == [name |-> "create_file", arguments |-> WellFormedArguments]
BadDoneCall == [name |-> "done", arguments |-> MalformedArguments]

\* the lists of tool calls of the assistant messages the provider returns
ModelCallLists ==
  { <<DoneCall>>, <<ListDirCall, DoneCall>>, <<BadDoneCall>>,
    <<ListDirCall>>, <<BadListDirCall>>, <<CreateFileCall>>,
    <<ListDirCall, CreateFileCall>> }

\* a tool output longer than MAX_PAYLOAD_SIZE characters
BigOutput == "big listing"

\* what executeToolWithTimeout resolves with, by tool name
ModelCalls == { DoneCall, ListDirCall, BadListDirCall, CreateFileCall, BadDoneCall }

ToolOutputs(name) ==
  CASE name = "done" -> { "Task completed: s" }
    [] name = "list_dir" -> { "listing", BigOutput }
    [] name = "create_file" -> { "Error: File already exists" }
    [] name \in { "view_file", "update_file", "create_directory", "run_command" } -> { "ok" }
    [] name = "read_url_content" -> { "page text" }
    [] OTHER -> { "Tool " \o name \o " is not implemented yet." }

\* content.length
ContentLength(c) == IF c = BigOutput THEN MAX_PAYLOAD_SIZE + 1 ELSE Len(c)

\* the messages of the errors createChatCompletion throws
RateLimitError == "429 rate limit exceeded"

ProtocolErrors ==
  { "400 Invalid parameter",
    "messages with role 'tool' must be a response",
    "invalid_request_error" }

ApiErrors == ProtocolErrors \cup { RateLimitError }

withProjectPathSystemPrompt == "system prompt"

ResetMessage ==
  "I encountered an API error while processing your request. The conversation has been reset. Please try your question again with simpler instructions."

-----------------------------------------------------------------------------
(* MessageFormatterService *)

ErrorNotice(error) ==
  UserMsg("There was an error in the previous step: " \o error
          \o ". Please handle this gracefully and adjust your approach.")

\* a variant of formatMessages that never adds the message about the error
formatMessagesWithoutError(systemPrompt, conversationHistory, error) ==
  <<SystemMsg(systemPrompt)>> \o conversationHistory

formatMessages(systemPrompt, conversationHistory, error) ==
  <<SystemMsg(systemPrompt)>>
    \o (IF error # "null" THEN <<ErrorNotice(error)>> ELSE <<>>)
    \o conversationHistory

RECURSIVE ToolCallsSize(_)
ToolCallsSize(calls) ==
  IF calls = <<>> THEN 0
  ELSE Len(Head(calls).name) + Len(Head(calls).arguments) + ToolCallsSize(Tail(calls))

RECURSIVE totalPayloadSize(_)
totalPayloadSize(h) ==
  IF h = <<>> THEN 0
  ELSE ContentLength(Head(h).content) + ToolCallsSize(Head(h).tool_calls)
         + totalPayloadSize(Tail(h))

shouldSummarizeHistory(h, maxPayloadSize, maxMessages) ==
  totalPayloadSize(h) > maxPayloadSize \/ Len(h) > maxMessages

-----------------------------------------------------------------------------
(* ResponseGeneratorService, ToolCallProcessorService *)

generateFinalResponse(m) ==
  IF m.content # "" THEN m.content
  ELSE IF Len(m.tool_calls) > 0
       THEN "I'm working on your request. Let me analyze this further..."
       ELSE ""

\* processToolCalls: one result per call, in call order; outputs[k] is what
\* executeToolWithTimeout resolves with for call k
processToolCalls(toolCalls, outputs) ==
  [k \in DOMAIN toolCalls |->
     IF ParsesAsJSON(toolCalls[k].arguments)
     THEN [tool_call_id |-> toolCalls[k].id, output |-> outputs[k], success |-> TRUE]
     ELSE [tool_call_id |-> toolCalls[k].id,
           output |-> "Error: " \o ParseErrorMessage, success |-> FALSE]]

\* the requiresUserConfirmation field of what processToolCalls returns
requiresUserConfirmation(toolCalls, breakingChangeTools) == FALSE

\* the calls of processToolCalls that reach executeToolWithTimeout
HandedToExecutor(toolCalls) ==
  LET Parsed(tc) == ParsesAsJSON(tc.arguments) IN SelectSeq(toolCalls, Parsed)

\* the outputs the tools of a batch can produce
OutputChoices(toolCalls) ==
  { outputs \in [DOMAIN toolCalls -> UNION { ToolOutputs(c.name) : c \in ModelCalls }] :
      \A k \in DOMAIN toolCalls :
         outputs[k] \in ToolOutputs(toolCalls[k].name)
         /\ (~ParsesAsJSON(toolCalls[k].arguments) =>
               outputs[k] = CHOOSE o \in ToolOutputs(toolCalls[k].name) : TRUE) }

\* a variant of AddResults that appends the results last to first
RECURSIVE AddResultsReversed(_, _)
AddResultsReversed(h, results) ==
  IF results = <<>> THEN h
  ELSE AddResultsReversed(
         addToConversationHistory(h, ToolMsg(results[Len(results)].tool_call_id,
                                             results[Len(results)].output)),
         SubSeq(results, 1, Len(results) - 1))

\* results.forEach(result => addToConversationHistory({role: 'tool', ...}))
RECURSIVE AddResults(_, _)
AddResults(h, results) ==
  IF results = <<>> THEN h
  ELSE AddResults(
         addToConversationHistory(h, ToolMsg(Head(results).tool_call_id, Head(results).output)),
         Tail(results))

\* msgs.forEach(msg => addToConversationHistory(msg)); each call of
\* addToConversationHistory has returned (the store has its new length)
\* before the next message is visited
RECURSIVE AddAll(_, _)
AddAll(h, msgs) ==
  IF msgs = <<>> THEN h
  ELSE LET stored == addToConversationHistory(h, Head(msgs))
           remaining == Tail(msgs)
       IN IF Len(stored) >= 0 /\ Len(remaining) >= 0
          THEN AddAll(stored, remaining)
          ELSE stored

\* conversationHistory.slice(-4) and conversationHistory.slice(0, -4)
latestMessages(h) == SubSeq(h, IF Len(h) > 4 THEN Len(h) - 3 ELSE 1, Len(h))
olderMessages(h) == SubSeq(h, 1, IF Len(h) > 4 THEN Len(h) - 4 ELSE 0)

\* the branch of executeAgentLoop that replaces the request by a summary
Summarizes(h) ==
  /\ shouldSummarizeHistory(h, MAX_PAYLOAD_SIZE, MAX_MESSAGES)
  /\ Len(h) > 2
  /\ Len(olderMessages(h)) > 0

\* messages.filter(m => m.role === role).length
RoleCount(h, role) == LET HasRole(m) == m.role = role IN Len(SelectSeq(h, HasRole))

\* a variant of fallbackSummary that reports the length of the transcript
\* for every role
fallbackSummaryOfLength(h) ==
  "Conversation summary (fallback): " \o ToString(Len(h)) \o " user messages, "
     \o ToString(Len(h)) \o " assistant messages, "
     \o ToString(Len(h)) \o " tool interactions."

\* the fallback summary of summarizeConversationHistory
fallbackSummary(h) ==
  "Conversation summary (fallback): " \o ToString(RoleCount(h, "user")) \o " user messages, "
     \o ToString(RoleCount(h, "assistant")) \o " assistant messages, "
     \o ToString(RoleCount(h, "tool")) \o " tool interactions."

\* a variant of formattedMessage that passes the stored message on as it is
wholeMessage(message) == message

\* { role: message.role, content: message.content }: what is pushed to
\* formattedConversation
formattedMessage(message) ==
  [role |-> message.role, content |-> message.content, tool_calls |-> <<>>,
   tool_call_id |-> 0]

\* the indices added to skipIndices for the assistant message at i: for each
\* of its tool calls the first later tool message with the id of the call
respondedIndices(h, i) ==
  { j \in (i + 1) .. (Len(h) - 1) :
      /\ At(h, j).role = "tool"
      /\ At(h, j).tool_call_id \in CallIds(At(h, i))
      /\ \A k \in (i + 1) .. (j - 1) :
            ~(At(h, k).role = "tool" /\ At(h, k).tool_call_id = At(h, j).tool_call_id) }

\* the loop that builds formattedConversation, from index i on
RECURSIVE FormatFrom(_, _, _, _)
FormatFrom(h, i, skipIndices, formatted) ==
  IF i >= Len(h) THEN formatted
  ELSE IF i \in skipIndices THEN FormatFrom(h, i + 1, skipIndices, formatted)
  ELSE LET message == At(h, i) IN
       IF HasToolCalls(message)
       THEN FormatFrom(h, i + 1, skipIndices \cup respondedIndices(h, i),
                       IF message.content # ""
                       THEN Append(formatted, formattedMessage(message))
                       ELSE formatted)
       ELSE IF message.role = "tool"
            THEN FormatFrom(h, i + 1, skipIndices, formatted)
            ELSE FormatFrom(h, i + 1, skipIndices,
                            Append(formatted, formattedMessage(message)))

formattedConversation(h) == FormatFrom(h, 0, {}, <<>>)

SummaryInstruction ==
  "Your task is to summarize the following conversation between a user and an AI assistant."

\* the messages summarizeConversationHistory passes to createChatCompletion
summaryRequest(h) == <<SystemMsg(SummaryInstruction)>> \o formattedConversation(h)

\* ConversationManager.summarizeConversationHistory on the transcript h: the
\* message returned, the number of createChatCompletion calls made, the
\* messages of that call, and the transcript afterwards; ok tells whether the
\* createChatCompletion call succeeds
summarizeConversationHistory(h, ok) ==
  IF Len(h) = 0
  THEN [message |-> SystemMsg("No conversation history yet."), clientCalls |-> 0,
        request |-> <<>>, history |-> h]
  ELSE [message |-> SystemMsg(IF ok THEN "summary" ELSE fallbackSummary(h)),
        clientCalls |-> 1, request |-> summaryRequest(h), history |-> h]

\* the content of the summary message of the summarization branch: the store
\* is cleared, the older messages are appended to it and summarized
SummaryContent(h, ok) ==
  summarizeConversationHistory(AddAll(<<>>, olderMessages(h)), ok).message.content

\* the messages of the main call of an iteration
BuildRequest(h, error, summaryOk) ==
  IF Summarizes(h)
  THEN <<SystemMsg(withProjectPathSystemPrompt),
         AssistantMsg(SummaryContent(h, summaryOk), <<>>)>>
         \o latestMessages(h)
  ELSE formatMessages(withProjectPathSystemPrompt, h, error)

\* a variant of HistoryAfterBuild that leaves the store as it is when the
\* summary is computed: the older messages only
HistoryAfterSummary(h) ==
  IF Summarizes(h) THEN AddAll(<<>>, olderMessages(h)) ELSE h

\* the store after the request of an iteration was built: the summarization
\* branch clears it and appends the original messages again one by one
HistoryAfterBuild(h) ==
  IF Summarizes(h) THEN AddAll(<<>>, h) ELSE h

\* the ids of a list of calls: the provider numbers them from nextId on
WithIds(calls, first) ==
  [k \in DOMAIN calls |-> ToolCall(first + k - 1, calls[k].name, calls[k].arguments)]

\* the assistant messages the provider can return
ModelAnswers(first) ==
  { AssistantMsg("answer", <<>>), AssistantMsg("", <<>>) }
    \cup { AssistantMsg("", WithIds(calls, first)) : calls \in ModelCallLists }

HasDone(m) == \E k \in DOMAIN m.tool_calls : m.tool_calls[k].name = "done"

\* assistantMessage.tool_calls.find(toolCall => toolCall.function.name === 'done')
doneToolCall(m) ==
  m.tool_calls[CHOOSE k \in DOMAIN m.tool_calls :
                  /\ m.tool_calls[k].name = "done"
                  /\ \A j \in 1 .. (k - 1) : m.tool_calls[j].name # "done"]

-----------------------------------------------------------------------------
(* ToolExecutor.executeToolWithTimeout and executeWithTimeout *)

\* the timeout processToolCalls passes to executeToolWithTimeout
timeoutMs == 30000

\* a promise that is not settled
Pending == "(pending)"

\* a promise that is rejected
Rejected == "(rejected)"

TimeoutMessage ==
  "Tool execution timed out after " \o ToString(timeoutMs \div 1000) \o " seconds"

\* the errors a tool implementation throws
ToolErrors == { "Error: EACCES", "Error: ENOENT" }

ErrorText(error) == "Error executing tool: " \o error

\* the tools the executor is called with
ExecutorTools ==
  { "done", "list_dir", "view_file", "create_file", "update_file", "create_directory",
    "run_command", "no_such_tool" }

\* a variant of breakingChangeTools without the shell command tool
fileChangeTools == <<"create_file", "update_file", "create_directory">>

\* the list of ToolExecutor.requiresUserConfirmation
breakingChangeTools == <<"create_file", "update_file", "create_directory", "run_command">>

\* ToolExecutor.requiresUserConfirmation(toolName):
\* breakingChangeTools.includes(toolName)
toolRequiresUserConfirmation(name) ==
  \E k \in DOMAIN breakingChangeTools : breakingChangeTools[k] = name

\* a variant of Resolve in which the last call of resolve wins
ResolveOverwrites(p, value) == value

\* resolve(value) on a promise that holds p: a settled promise stays as it is
Resolve(p, value) == IF p = Pending THEN value ELSE p

ExecIdle ==
  /\ toolName = "none"
  /\ toolRun = "idle"
  /\ timer = "unset"
  /\ promise = Pending
  /\ resolveCalls = 0
  /\ delivered = Pending
  /\ toolRuns = 0
  /\ implementations = {}

-----------------------------------------------------------------------------
(* ChatViewProvider and the page of its webview; ContextFilesManager *)

\* the calls of handleUserMessage a run can make
MaxSends == 2

\* the user actions of a run: messages sent and clicks on Clear Chat
MaxUserActions == 3

ViewIdle ==
  /\ messageHistory = <<>>
  /\ inputDisabled = FALSE
  /\ toHost = <<>>
  /\ toView = <<>>
  /\ handlers = [i \in 1 .. MaxSends |-> "none"]

CtxIdle ==
  /\ contextFiles = <<>>
  /\ lastEvent = <<>>
  /\ eventCount = 0

ProcIdle ==
  /\ batch = <<>>
  /\ batchResults = <<>>
  /\ processing = "idle"

-----------------------------------------------------------------------------
(* AgentLoopService.executeAgentLoop *)

LoopIdle ==
  /\ pc = "idle"
  /\ iterations = 0
  /\ lastError = "null"
  /\ loopComplete = FALSE
  /\ finalResponse = ""
  /\ assistantMessage = NoMessage
  /\ request = <<>>
  /\ apiError = "none"
  /\ chatCalls = 0
  /\ executed = <<>>
  /\ confirmation = "none"
  /\ returned = "none"
  /\ queries = 0
  /\ toolRounds = 0
  /\ apiErrors = 0
  /\ outage = FALSE
  /\ nextId = 1

Init ==
  /\ history = <<>>
  /\ prevHistory = <<>>
  /\ lastOp = "none"
  /\ ret = 0
  /\ steps = 0
  /\ LoopIdle
  /\ ExecIdle
  /\ ViewIdle
  /\ CtxIdle
  /\ ProcIdle

\* entry with a configured API key: the query is appended, the loop starts
StartQuery(down) ==
  /\ pc = "idle"
  /\ Events < MaxEvents
  /\ queries' = queries + 1
  /\ outage' = down
  /\ history' = addToConversationHistory(history, UserMsg("q"))
  /\ loopComplete' = FALSE
  /\ finalResponse' = ""
  /\ lastError' = "null"
  /\ iterations' = 0
  /\ chatCalls' = 0
  /\ executed' = <<>>
  /\ confirmation' = "none"
  /\ assistantMessage' = NoMessage
  /\ request' = <<>>
  /\ apiError' = "none"
  /\ returned' = "none"
  /\ pc' = "loop"
  /\ UNCHANGED <<procVars, storeVars, execVars, viewVars, ctxVars, toolRounds, apiErrors, nextId>>

\* a variant of StartWithoutApiKey that appends the query before it validates
StartWithoutApiKeyAfterAppend ==
  /\ pc = "idle"
  /\ Events < MaxEvents
  /\ queries' = queries + 1
  /\ returned' = "throw"
  /\ history' = addToConversationHistory(history, UserMsg("q"))
  /\ UNCHANGED <<procVars, storeVars, execVars, viewVars, ctxVars, pc, iterations, lastError, loopComplete, finalResponse,
                 assistantMessage, request, apiError, chatCalls, executed, confirmation, toolRounds,
                 apiErrors, outage, nextId>>

\* entry without an API key: validateApiKey fails, the error is thrown on
StartWithoutApiKey ==
  /\ pc = "idle"
  /\ Events < MaxEvents
  /\ queries' = queries + 1
  /\ returned' = "throw"
  /\ UNCHANGED <<procVars, history, storeVars, execVars, viewVars, ctxVars, pc, iterations, lastError, loopComplete, finalResponse,
                 assistantMessage, request, apiError, chatCalls, executed, confirmation, toolRounds,
                 apiErrors, outage, nextId>>

\* a variant of LoopCondition that looks at the iteration count only
LoopConditionByCount == iterations < MAX_ITERATIONS

\* a variant of LoopCondition that admits one more iteration
LoopConditionOffByOne == ~loopComplete /\ iterations <= MAX_ITERATIONS

\* while (!loopComplete && !forceExitLoop && iterations < MAX_ITERATIONS);
\* forceExitLoop is set together with loopComplete only
LoopCondition == ~loopComplete /\ iterations < MAX_ITERATIONS

\* the head of an iteration: the request is built (summarizing when the
\* history is too large) and the main chat-completion call is made
BeginIteration(summaryOk) ==
  /\ pc = "loop"
  /\ LoopCondition
  /\ iterations' = iterations + 1
  /\ request' = BuildRequest(history, lastError, summaryOk)
  /\ history' = HistoryAfterBuild(history)
  /\ chatCalls' = chatCalls + 1
  /\ executed' = <<>>
  /\ confirmation' = "none"
  /\ assistantMessage' = NoMessage
  /\ apiError' = "none"
  /\ pc' = "chat"
  /\ UNCHANGED <<procVars, storeVars, execVars, viewVars, ctxVars, lastError, loopComplete, finalResponse, returned, queries,
                 toolRounds, apiErrors, outage, nextId>>

\* a variant of ChatFails without the catch of the iteration: an ordinary
\* error of the main call leaves executeAgentLoop as a rejection
ChatFailsUncaught(error) ==
  /\ pc = "chat"
  /\ error \notin ProtocolErrors => (outage \/ Events < MaxEvents)
  /\ apiErrors' = IF error \in ProtocolErrors \/ outage THEN apiErrors ELSE apiErrors + 1
  /\ request' = <<>>
  /\ apiError' = error
  /\ IF error \in ProtocolErrors
     THEN /\ history' = clearConversationHistory(sanitizeToolMessages(history))
          /\ loopComplete' = TRUE
          /\ finalResponse' = ResetMessage
          /\ pc' = "loop"
          /\ UNCHANGED <<lastError, returned>>
     ELSE /\ returned' = "throw"
          /\ pc' = "idle"
          /\ UNCHANGED <<history, loopComplete, finalResponse, lastError>>
  /\ UNCHANGED <<procVars, storeVars, execVars, viewVars, ctxVars, iterations, assistantMessage, chatCalls, executed, confirmation,
                 queries, toolRounds, outage, nextId>>

\* the main call throws
ChatFails(error) ==
  /\ pc = "chat"
  /\ error \notin ProtocolErrors => (outage \/ Events < MaxEvents)
  /\ apiErrors' = IF error \in ProtocolErrors \/ outage THEN apiErrors ELSE apiErrors + 1
  /\ request' = <<>>
  /\ apiError' = error
  /\ IF error \in ProtocolErrors
     THEN /\ history' = clearConversationHistory(sanitizeToolMessages(history))
          /\ loopComplete' = TRUE
          /\ finalResponse' = ResetMessage
          /\ UNCHANGED lastError
     ELSE /\ lastError' = error
          /\ UNCHANGED <<history, loopComplete, finalResponse>>
  /\ pc' = "loop"
  /\ UNCHANGED <<procVars, storeVars, execVars, viewVars, ctxVars, iterations, assistantMessage, chatCalls, executed, confirmation,
                 returned,
                 queries, toolRounds, outage, nextId>>

\* the main call returns an assistant message: it is appended; without tool
\* calls the loop is complete
ChatReturns(m) ==
  /\ pc = "chat"
  /\ ~outage
  /\ (Len(m.tool_calls) > 0 /\ ~HasDone(m)) => Events < MaxEvents
  /\ request' = <<>>
  /\ history' = addToConversationHistory(history, m)
  /\ nextId' = nextId + Len(m.tool_calls)
  /\ toolRounds' = IF Len(m.tool_calls) > 0 /\ ~HasDone(m) THEN toolRounds + 1 ELSE toolRounds
  /\ IF Len(m.tool_calls) = 0
     THEN /\ finalResponse' = generateFinalResponse(m)
          /\ loopComplete' = TRUE
          /\ assistantMessage' = NoMessage
          /\ pc' = "loop"
     ELSE /\ assistantMessage' = m
          /\ pc' = "tools"
          /\ UNCHANGED <<finalResponse, loopComplete>>
  /\ UNCHANGED <<procVars, storeVars, execVars, viewVars, ctxVars, iterations, lastError, apiError, chatCalls, executed, confirmation,
                 returned,
                 queries, apiErrors, outage>>

\* the answers to showWarningMessage: a button, or the prompt dismissed
PromptAnswers == { "Approve", "Deny" }

DeniedMessage == "User denied permission for the assistant to make changes"

\* the tool calls of the assistant message are processed (the tools run), the
\* user is prompted when processToolCalls asks for it, and the results are
\* appended: the done call alone when there is one, all calls otherwise
RunTools ==
  /\ pc = "tools"
  /\ LET done == HasDone(assistantMessage)
         toolCalls == IF done
                      THEN <<doneToolCall(assistantMessage)>>
                      ELSE assistantMessage.tool_calls
         prompted == ~done /\ requiresUserConfirmation(toolCalls, BREAKING_CHANGE_TOOLS)
     IN \E outputs \in OutputChoices(toolCalls),
           answer \in (IF prompted THEN PromptAnswers ELSE { "none" }) :
          LET results == processToolCalls(toolCalls, outputs)
              failed == { k \in DOMAIN results : ~results[k].success }
              failedToolCall == results[CHOOSE k \in failed : \A j \in failed : k <= j]
          IN /\ executed' = HandedToExecutor(toolCalls)
             /\ confirmation' = answer
             /\ IF answer = "Deny"
                THEN /\ lastError' = DeniedMessage
                     /\ UNCHANGED <<history, finalResponse, loopComplete>>
                ELSE /\ history' = AddResults(history, results)
                     /\ IF done
                        THEN /\ finalResponse' = IF results[1].output # ""
                                                 THEN results[1].output
                                                 ELSE generateFinalResponse(assistantMessage)
                             /\ loopComplete' = TRUE
                             /\ UNCHANGED lastError
                        ELSE /\ lastError' = IF failed # {}
                                             THEN "Tool execution failed: "
                                                    \o failedToolCall.output
                                             ELSE lastError
                             /\ UNCHANGED <<finalResponse, loopComplete>>
  /\ assistantMessage' = NoMessage
  /\ pc' = "loop"
  /\ UNCHANGED <<procVars, storeVars, execVars, viewVars, ctxVars, iterations, request, apiError, chatCalls, returned, queries,
                 toolRounds, apiErrors, outage, nextId>>

\* a variant of ReturnResponse whose iteration-exceeded message never names
\* the error
ReturnResponseWithoutError ==
  /\ pc = "loop"
  /\ ~LoopCondition
  /\ finalResponse' =
       IF loopComplete THEN finalResponse
       ELSE "I'm sorry, but I encountered an issue while processing your request. "
              \o "Please try again with a clearer or simpler query."
  /\ returned' = "value"
  /\ pc' = "idle"
  /\ UNCHANGED <<procVars, history, storeVars, execVars, viewVars, ctxVars, iterations, lastError,
                 loopComplete, assistantMessage, request, apiError, chatCalls, executed,
                 confirmation, queries, toolRounds, apiErrors, outage, nextId>>

\* the while condition fails: the invocation returns finalResponse
ReturnResponse ==
  /\ pc = "loop"
  /\ ~LoopCondition
  /\ finalResponse' =
       IF loopComplete THEN finalResponse
       ELSE "I'm sorry, but I encountered an issue while processing your request. "
              \o (IF lastError # "null" THEN "Error: " \o lastError
                  ELSE "Please try again with a clearer or simpler query.")
  /\ returned' = "value"
  /\ pc' = "idle"
  /\ UNCHANGED <<procVars, history, storeVars, execVars, viewVars, ctxVars, iterations, lastError, loopComplete, assistantMessage,
                 request, apiError, chatCalls, executed, confirmation, queries, toolRounds,
                 apiErrors,
                 outage, nextId>>

Next ==
  \/ \E down \in BOOLEAN : StartQuery(down)
  \/ StartWithoutApiKey
  \/ \E summaryOk \in BOOLEAN : BeginIteration(summaryOk)
  \/ \E error \in ApiErrors : ChatFails(error)
  \/ \E m \in ModelAnswers(nextId) : ChatReturns(m)
  \/ RunTools
  \/ ReturnResponse

Spec == Init /\ [][Next]_vars

\* a step of a running invocation: timers fire, and every chat-completion call
\* and every tool call completes
LoopStep ==
  \/ \E summaryOk \in BOOLEAN : BeginIteration(summaryOk)
  \/ \E error \in ApiErrors : ChatFails(error)
  \/ \E m \in ModelAnswers(nextId) : ChatReturns(m)
  \/ RunTools
  \/ ReturnResponse

SpecLive == Spec /\ WF_vars(LoopStep)

-----------------------------------------------------------------------------
(* Claims about executeAgentLoop (Spec, SpecLive) *)

\* the loop stands at the head of an iteration, or the invocation has returned
AtRequestOrReturned == pc = "loop" \/ (pc = "idle" /\ returned = "value")

\* C1: whenever executeAgentLoop builds a request and whenever it has
\* returned, the stored transcript satisfies the pairing invariant.
C1_TranscriptPaired == AtRequestOrReturned => PairingInvariant(history)

\* every tool message of the list is preceded in the list by an assistant
\* message whose tool calls contain its id, with only tool messages in between
ToolMessagesAnswerCalls(messages) ==
  \A i \in Indices(messages) :
     At(messages, i).role = "tool" =>
        \E j \in 0 .. (i - 1) :
           /\ At(messages, j).role = "assistant"
           /\ At(messages, i).tool_call_id \in CallIds(At(messages, j))
           /\ \A k \in (j + 1) .. (i - 1) : At(messages, k).role = "tool"

\* C2: every message list passed to the main chat-completion call is valid
\* with respect to tool pairing.
C2_RequestsValid == pc = "chat" => ToolMessagesAnswerCalls(request)

\* C8: an invocation makes at most MAX_ITERATIONS iterations and main
\* chat-completion calls, and, when every call completes, it returns.
C8_LoopTerminates ==
  /\ [](iterations <= MAX_ITERATIONS /\ chatCalls <= MAX_ITERATIONS)
  /\ [](pc # "idle" => <>(pc = "idle" /\ returned = "value"))

\* an invocation returned after MAX_ITERATIONS main calls without completing
C8_Witness ==
  /\ pc = "idle"
  /\ returned = "value"
  /\ chatCalls = MAX_ITERATIONS
  /\ ~loopComplete

IsSuffix(t, h) == Len(t) <= Len(h) /\ t = SubSeq(h, Len(h) - Len(t) + 1, Len(h))

\* the first tool call named done of an assistant message
FirstDone(m) ==
  LET k == CHOOSE n \in DOMAIN m.tool_calls :
              /\ m.tool_calls[n].name = "done"
              /\ \A j \in DOMAIN m.tool_calls : m.tool_calls[j].name = "done" => n <= j
  IN m.tool_calls[k]

\* C9: when the assistant message has a done call, no other call is handed to
\* the tool executor, the only message appended is the response to the done
\* call, the loop is complete in that iteration, and the text returned is the
\* output of the done tool.
C9_DoneShortCircuit ==
  [][ /\ (pc = "tools" /\ HasDone(assistantMessage)) =>
           /\ \A k \in DOMAIN executed' : executed'[k] = FirstDone(assistantMessage)
           /\ Len(executed') <= 1
           /\ history' # <<>>
           /\ IsSuffix(history',
                       Append(history,
                              ToolMsg(FirstDone(assistantMessage).id, finalResponse')))
           /\ finalResponse' \in ToolOutputs("done")
           /\ loopComplete'
           /\ iterations' = iterations
           /\ chatCalls' = chatCalls
           /\ pc' = "loop"
      /\ (pc = "loop" /\ loopComplete) =>
           /\ pc' = "idle"
           /\ returned' = "value"
           /\ finalResponse' = finalResponse
           /\ history' = history
    ]_vars

\* an invocation returned the output of a done call that had a sibling call
C9_Witness ==
  /\ pc = "idle"
  /\ returned = "value"
  /\ Len(executed) = 1
  /\ executed[1].name = "done"
  /\ finalResponse \in ToolOutputs("done")
  /\ \E i \in Indices(history) : Len(At(history, i).tool_calls) > 1 /\ HasDone(At(history, i))

\* C10: after a main call failed with a protocol violation the transcript is
\* empty, the loop is complete with the reset message, the invocation makes no
\* further chat-completion call and returns the reset message.
C10_ProtocolViolationResets ==
  [][ /\ (pc = "chat" /\ apiError' \in ProtocolErrors) =>
           /\ history' = <<>>
           /\ loopComplete'
           /\ finalResponse' = ResetMessage
           /\ chatCalls' = chatCalls
           /\ pc' = "loop"
      /\ (pc = "loop" /\ apiError \in ProtocolErrors) =>
           /\ pc' = "idle"
           /\ returned' = "value"
           /\ finalResponse' = ResetMessage
           /\ history' = <<>>
           /\ chatCalls' = chatCalls
    ]_vars

\* an invocation returned the reset message after a protocol violation that
\* followed a tool round
C10_Witness ==
  /\ pc = "idle"
  /\ returned = "value"
  /\ apiError \in ProtocolErrors
  /\ finalResponse = ResetMessage
  /\ history = <<>>
  /\ chatCalls > 1

\* C11: when credential validation fails at entry the invocation ends at once
\* with the failure thrown to the caller: no iteration runs, no chat-completion
\* call is made and the stored transcript is unchanged.
C11_NoKeyLeavesTranscript ==
  [][ returned' = "throw" =>
        /\ pc = "idle"
        /\ pc' = "idle"
        /\ history' = history
        /\ iterations' = iterations
        /\ chatCalls' = chatCalls
        /\ request' = request
    ]_vars

\* an invocation without API key ended on a transcript that holds an earlier
\* exchange
C11_Witness ==
  /\ pc = "idle"
  /\ returned = "throw"
  /\ Len(history) >= 2

\* C12: every invocation that returns, returns a non-empty text.
C12_ResponseNonEmpty == (pc = "idle" /\ returned = "value") => finalResponse # ""

\* C13: once credential validation has passed, executeAgentLoop does not throw
\* to its caller: a running invocation ends in a returned text only.
C13_NoThrowAfterValidation ==
  [][ pc # "idle" => (returned' # "throw" /\ (pc' = "idle" => returned' = "value")) ]_vars

\* an invocation returned a text after a failed main call and a tool call whose
\* arguments did not parse
C13_Witness ==
  /\ pc = "idle"
  /\ returned = "value"
  /\ apiErrors > 0
  /\ \E i \in Indices(history) :
        At(history, i).role = "tool" /\ At(history, i).content = "Error: " \o ParseErrorMessage

\* the outputs with which a tool reports that it failed
FailureOutputs == { "Error: File already exists" }

LastMessage(h) == At(h, Len(h) - 1)

\* C14: when a tool call of a tool round (not the done path) ends with an
\* error result, the loop records it as lastError and goes on.
C14_ToolFailureRecorded ==
  [][ ( /\ pc = "tools"
        /\ ~HasDone(assistantMessage)
        /\ pc' = "loop"
        /\ LastMessage(history').role = "tool"
        /\ LastMessage(history').content \in FailureOutputs ) =>
        /\ lastError' # "null"
        /\ ~loopComplete'
    ]_vars

\* C15: when lastError is set at the start of an iteration, the request of
\* that iteration holds exactly one user message describing the error, right
\* after the system prompt.
C15_ErrorNoticeInjected ==
  (pc = "chat" /\ lastError # "null") =>
     /\ Len(request) >= 2
     /\ request[1] = SystemMsg(withProjectPathSystemPrompt)
     /\ request[2] = ErrorNotice(lastError)
     /\ Cardinality({ k \in DOMAIN request : request[k] = ErrorNotice(lastError) }) = 1

\* the assistant message asks for a tool that changes the workspace
RequestsBreakingChange(m) ==
  \E k \in DOMAIN m.tool_calls : m.tool_calls[k].name \in BREAKING_CHANGE_TOOLS

\* C17: in an iteration (not the done path) whose assistant message asks for
\* create_file, update_file, create_directory or run_command, the user is
\* prompted for approval.
C17_ConfirmationPrompted ==
  [][ ( /\ pc = "tools"
        /\ pc' = "loop"
        /\ ~HasDone(assistantMessage)
        /\ RequestsBreakingChange(assistantMessage) ) =>
        confirmation' \in PromptAnswers
    ]_vars

\* C18: a tool that changes the workspace has been run in an iteration only
\* if the user approved in that iteration.
C18_NoMutationBeforeApproval ==
  (\E k \in DOMAIN executed : executed[k].name \in BREAKING_CHANGE_TOOLS) =>
     confirmation = "Approve"

\* C19: the transcript is appended to in the order of the events: the user
\* query first; the assistant message of an iteration before any of its tool
\* calls runs; then (not the done path) one tool message per tool call, in the
\* order of tool_calls; and a plain assistant message ends the loop with its
\* content as the text returned.
C19_AppendOrder ==
  [][ /\ (pc = "idle" /\ pc' = "loop") =>
           /\ history' # <<>>
           /\ LastMessage(history') = UserMsg("q")
           /\ IsSuffix(history', Append(history, UserMsg("q")))
      /\ (pc = "chat" /\ pc' = "tools") =>
           /\ LastMessage(history') = assistantMessage'
           /\ IsSuffix(history', Append(history, assistantMessage'))
           /\ executed' = <<>>
      /\ (pc = "tools" /\ pc' = "loop" /\ ~HasDone(assistantMessage)) =>
           LET calls == assistantMessage.tool_calls
               n == Len(calls)
               base == Len(history') - n
           IN /\ base >= 0
              /\ \A k \in 1 .. n :
                    /\ history'[base + k].role = "tool"
                    /\ history'[base + k].tool_call_id = calls[k].id
              /\ IsSuffix(SubSeq(history', 1, base), history)
      /\ (pc = "chat" /\ pc' = "loop" /\ apiError' = "none") =>
           /\ LastMessage(history').role = "assistant"
           /\ LastMessage(history').tool_calls = <<>>
           /\ IsSuffix(history', Append(history, LastMessage(history')))
           /\ loopComplete'
           /\ finalResponse' = LastMessage(history').content
      /\ (pc = "loop" /\ loopComplete /\ apiError = "none" /\ executed = <<>>) =>
           /\ returned' = "value"
           /\ finalResponse' = finalResponse
    ]_vars

\* an invocation returned the content of a plain assistant message after a
\* round of two tool calls
C19_Witness ==
  /\ pc = "idle"
  /\ returned = "value"
  /\ finalResponse = "answer"
  /\ Len(history) >= 5
  /\ LastMessage(history).content = "answer"
  /\ \E i \in Indices(history) :
        /\ Len(At(history, i).tool_calls) = 2
        /\ i + 2 < Len(history)
        /\ At(history, i + 1).tool_call_id = At(history, i).tool_calls[1].id
        /\ At(history, i + 2).tool_call_id = At(history, i).tool_calls[2].id

\* the provider is down and the main call at hand, or the last one made,
\* did not fail with a protocol violation
OrdinaryFailuresOnly == outage /\ apiError \notin ProtocolErrors

\* C30: when every main call of an invocation fails with an error that is not
\* a protocol violation, the invocation makes MAX_ITERATIONS main calls,
\* leaves the transcript as it was after the append of the query, and returns
\* the iteration-exceeded message with the text of the last error
C30_OrdinaryErrorsExhaustLoop ==
  /\ []((pc = "idle" /\ returned = "value" /\ OrdinaryFailuresOnly) =>
          /\ chatCalls = MAX_ITERATIONS
          /\ iterations = MAX_ITERATIONS
          /\ lastError = apiError
          /\ finalResponse =
               "I'm sorry, but I encountered an issue while processing your request. "
                 \o "Error: " \o apiError
          /\ history # <<>>
          /\ LastMessage(history) = UserMsg("q"))
  /\ [][(outage /\ pc # "idle" /\ apiError' \notin ProtocolErrors) =>
          history' = history]_vars

\* an invocation returned after ten main calls that failed with a rate limit
\* error, on a store that held an earlier exchange
C30_Witness ==
  /\ pc = "idle"
  /\ returned = "value"
  /\ OrdinaryFailuresOnly
  /\ apiError = RateLimitError
  /\ chatCalls = MAX_ITERATIONS
  /\ Len(history) > 1

-----------------------------------------------------------------------------
(* Bounds of the store specifications *)

\* the longest transcript handed to the repair operations
MaxLen == 4

\* the number of leading messages of a full transcript that are arbitrary
HeadLen == 3

\* the number of messages appended to a full transcript
MaxAppends == 3

-----------------------------------------------------------------------------
(* The transcripts the store specifications start from *)

Call1 == ToolCall(1, "list_dir", "{}")
Call2 == ToolCall(2, "view_file", "{}")

RepairAlphabet ==
  { UserMsg("q"),
    AssistantMsg("text", <<>>),
    AssistantMsg("", <<Call1>>),
    AssistantMsg("", <<Call1, Call2>>),
    AssistantMsg("", <<ToolCall(2, "", "")>>),
    ToolMsg(1, "ok"),
    ToolMsg(2, "ok") }

TruncAlphabet ==
  { UserMsg("q"),
    AssistantMsg("text", <<>>),
    AssistantMsg("", <<Call1>>),
    ToolMsg(1, "ok") }

SeqsUpTo(S, n) == UNION { [1 .. k -> S] : k \in 0 .. n }

\* a run of plain assistant messages that fills a transcript up to n messages
RECURSIVE Filler(_)
Filler(n) == IF n <= 0 THEN <<>> ELSE Append(Filler(n - 1), AssistantMsg("text", <<>>))

\* transcripts of maxHistoryLength - 1 or maxHistoryLength messages (the store
\* holds them without truncation): an arbitrary head, then filler
FullTranscripts ==
  { head \o Filler(n - HeadLen) :
      head \in [1 .. HeadLen -> TruncAlphabet],
      n \in { maxHistoryLength - 1, maxHistoryLength } }

-----------------------------------------------------------------------------
(* The store on its own: the repair operations applied to any short transcript *)

\* the provider never issues the same tool call id twice
UniqueCallIds(h) ==
  \A i, j \in Indices(h) : i # j => CallIds(At(h, i)) \cap CallIds(At(h, j)) = {}

InitRepair ==
  /\ history \in { h \in SeqsUpTo(RepairAlphabet, MaxLen) : UniqueCallIds(h) }
  /\ prevHistory = <<>>
  /\ lastOp = "none"
  /\ ret = 0
  /\ steps = 0
  /\ LoopIdle
  /\ ExecIdle
  /\ ViewIdle
  /\ CtxIdle
  /\ ProcIdle

SanitizeToolMessages ==
  /\ steps = 0
  /\ history' = sanitizeToolMessages(history)
  /\ ret' = sanitizeToolMessagesCount(history)
  /\ prevHistory' = history
  /\ lastOp' = "sanitize"
  /\ steps' = steps + 1
  /\ UNCHANGED <<procVars, loopVars, execVars, viewVars, ctxVars>>

ValidateAndSanitize ==
  /\ steps = 0
  /\ history' = validateAndSanitizeConversationHistory(history)
  /\ ret' = Len(validateAndSanitizeConversationHistory(history))
  /\ prevHistory' = history
  /\ lastOp' = "validate"
  /\ steps' = steps + 1
  /\ UNCHANGED <<procVars, loopVars, execVars, viewVars, ctxVars>>

\* summarizeConversationHistory(); ret keeps what it returned, the number of
\* createChatCompletion calls it made, the messages of that call and whether
\* it failed
SummarizeConversationHistory(ok) ==
  /\ steps = 0
  /\ history' = summarizeConversationHistory(history, ok).history
  /\ ret' = [message |-> summarizeConversationHistory(history, ok).message,
             clientCalls |-> summarizeConversationHistory(history, ok).clientCalls,
             request |-> summarizeConversationHistory(history, ok).request,
             clientFailed |-> ~ok /\ summarizeConversationHistory(history, ok).clientCalls > 0]
  /\ prevHistory' = history
  /\ lastOp' = "summarize"
  /\ steps' = steps + 1
  /\ UNCHANGED <<procVars, loopVars, execVars, viewVars, ctxVars>>

NextRepair ==
  \/ SanitizeToolMessages
  \/ ValidateAndSanitize
  \/ \E ok \in BOOLEAN : SummarizeConversationHistory(ok)

SpecRepair == InitRepair /\ [][NextRepair]_vars

-----------------------------------------------------------------------------
(* The store on its own: messages appended to a full transcript *)

InitTrunc ==
  /\ history \in FullTranscripts
  /\ prevHistory = <<>>
  /\ lastOp = "none"
  /\ ret = 0
  /\ steps = 0
  /\ LoopIdle
  /\ ExecIdle
  /\ ViewIdle
  /\ CtxIdle
  /\ ProcIdle

\* addToConversationHistory(m); prevHistory keeps the transcript after the
\* push, before safelyTruncateConversationHistory ran
AddToConversationHistory(m) ==
  /\ steps < MaxAppends
  /\ history' = addToConversationHistory(history, m)
  /\ prevHistory' = Append(history, m)
  /\ ret' = Len(Append(history, m)) - Len(addToConversationHistory(history, m))
  /\ lastOp' = "append"
  /\ steps' = steps + 1
  /\ UNCHANGED <<procVars, loopVars, execVars, viewVars, ctxVars>>

NextTrunc == \E m \in TruncAlphabet : AddToConversationHistory(m)

SpecTrunc == InitTrunc /\ [][NextTrunc]_vars

-----------------------------------------------------------------------------
(* Claims about the repair operations (SpecRepair) *)

NoIncompleteToolCall(h) == \A i \in Indices(h) : ~IncompleteToolCall(At(h, i))

\* C3: validateAndSanitizeConversationHistory, applied to any transcript (here:
\* any transcript whose tool calls are all well-formed, so that its defects are
\* orphaned, missing and separated responses only), leaves a transcript that
\* satisfies the pairing invariant.
C3_ValidateRestoresPairing ==
  (lastOp = "validate" /\ NoIncompleteToolCall(prevHistory)) => PairingInvariant(history)

NoOrphanedResponse(h) ==
  \A i \in Indices(h) :
     At(h, i).role = "tool" =>
        \E j \in 0 .. (i - 1) :
           At(h, j).role = "assistant" /\ At(h, i).tool_call_id \in CallIds(At(h, j))

NoOrphanedCall(h) ==
  \A j \in Indices(h) :
     At(h, j).role = "assistant" =>
        \A id \in CallIds(At(h, j)) :
           \E i \in (j + 1) .. (Len(h) - 1) :
              At(h, i).role = "tool" /\ At(h, i).tool_call_id = id

\* C4: after sanitizeToolMessages no tool message lacks a matching assistant
\* tool call earlier in the transcript, and no assistant tool call lacks a
\* tool response later in the transcript.
C4_SanitizeLeavesNoOrphans ==
  lastOp = "sanitize" => NoOrphanedResponse(history) /\ NoOrphanedCall(history)

-----------------------------------------------------------------------------
(* Claims about truncation (SpecTrunc) *)

\* the assistant message that owns the tool message at i: the nearest earlier
\* assistant message that carries its id (-1: none)
OwnerOf(h, i) ==
  LET owners == { j \in 0 .. (i - 1) :
                    At(h, j).role = "assistant"
                    /\ At(h, i).tool_call_id \in CallIds(At(h, j)) }
  IN IF owners = {} THEN -1 ELSE SetMax(owners)

\* each tool response follows its owning assistant message within an unbroken
\* run of tool messages
ResponsesFollowCalls(h) ==
  \A i \in Indices(h) :
     At(h, i).role = "tool" =>
        /\ OwnerOf(h, i) >= 0
        /\ i \in ToolRun(h, OwnerOf(h, i))

\* removing the first c messages of h removes an assistant tool-call message
\* and keeps one of its responses, or removes a response and keeps its call
Separates(h, c) ==
  \E i \in Indices(h) :
     /\ At(h, i).role = "tool"
     /\ OwnerOf(h, i) >= 0
     /\ \/ OwnerOf(h, i) < c /\ c <= i
        \/ i < c /\ c <= OwnerOf(h, i)

RemovedByLastAppend == Len(prevHistory) - Len(history)

\* C5: on a transcript whose responses follow their calls, the truncation run
\* by append removes a prefix that separates no tool call from a response, and
\* it never cuts below the maximum length (the transcript stays over-length
\* when the cut found removes too little).
C5_TruncationPreservesPairing ==
  (lastOp = "append" /\ ResponsesFollowCalls(prevHistory)) =>
     /\ history = SubSeq(prevHistory, RemovedByLastAppend + 1, Len(prevHistory))
     /\ ~Separates(prevHistory, RemovedByLastAppend)
     /\ Len(prevHistory) > maxHistoryLength => Len(history) >= maxHistoryLength

\* a cut that removed a whole tool-call exchange, and left the transcript over-length
C5_Witness ==
  /\ lastOp = "append"
  /\ ResponsesFollowCalls(prevHistory)
  /\ RemovedByLastAppend >= 3
  /\ \E j \in 0 .. (RemovedByLastAppend - 1) :
        HasToolCalls(At(prevHistory, j)) /\ ToolRun(prevHistory, j) # {}

\* C6: truncating the result of a truncation removes nothing more, and
\* truncation is a no-op on a transcript of at most 10 messages.
C6_TruncationIdempotent ==
  lastOp = "append" =>
     /\ safelyTruncateConversationHistory(history) = history
     /\ Len(prevHistory) <= maxHistoryLength => history = prevHistory

\* a truncation that removed messages and left the transcript over-length
C6_Witness ==
  /\ lastOp = "append"
  /\ RemovedByLastAppend > 0
  /\ Len(history) > maxHistoryLength

\* the transcript begins with a complete user -> assistant [-> tool responses]
\* exchange
BeginsWithCompleteExchange(h) ==
  /\ Len(h) >= 2
  /\ At(h, 0).role = "user"
  /\ At(h, 1).role = "assistant"
  /\ \A k \in DOMAIN At(h, 1).tool_calls :
        Cardinality(ResponsesInRun(h, 1, At(h, 1).tool_calls[k].id)) = 1
  /\ \A i \in ToolRun(h, 1) : At(h, i).tool_call_id \in CallIds(At(h, 1))

OldestExchangeLen(h) == 2 + Cardinality(ToolRun(h, 1))

AppendReached11 ==
  /\ lastOp = "append"
  /\ Len(prevHistory) = maxHistoryLength + 1
  /\ BeginsWithCompleteExchange(prevHistory)

C28_CutShape ==
  lastOp = "append" =>
     /\ RemovedByLastAppend >= 0
     /\ history = SubSeq(prevHistory, RemovedByLastAppend + 1, Len(prevHistory))
     /\ RemovedByLastAppend > 0 =>
          /\ At(prevHistory, RemovedByLastAppend - 1).role = "user"
          /\ RemovedByLastAppend <= Len(prevHistory) - 10
          /\ Len(history) >= 10
     /\ history # <<>>
     /\ LastMessage(history) = LastMessage(prevHistory)

\* a cut of two messages or more: the messages before the user message go
\* with it
C28_Witness ==
  /\ lastOp = "append"
  /\ RemovedByLastAppend >= 2
  /\ At(prevHistory, 0).role # "user"
  /\ Len(history) = 10

\* the scan of step 2 gets to the user message at i: no user message before it
\* was rejected, and the cut found so far is below excessMessages
ScanReaches(h, i) ==
  LET before == { j \in 0 .. (i - 1) : At(h, j).role = "user" } IN
  /\ i < Len(h) - minimumToKeep
  /\ \A j \in before : ~CutBlocked(h, j)
  /\ before # {} => SetMax(before) + 1 < Len(h) - maxHistoryLength

\* the user messages the scan rejects
RejectedCutPoints(h) ==
  { i \in Indices(h) : At(h, i).role = "user" /\ ScanReaches(h, i) /\ CutBlocked(h, i) }

\* the user messages after i within the removable prefix that pass the test
LaterCutPoints(h, i) ==
  { k \in (i + 1) .. (Len(h) - minimumToKeep - 1) :
      At(h, k).role = "user" /\ ~CutBlocked(h, k) }

SetMin(S) == CHOOSE x \in S : \A y \in S : x <= y

\* C29: when the scan rejects the cut after a user message and a later user
\* message within the removable prefix passes the test, truncation removes
\* the messages up to that later user message
C29_ScanContinuesAfterRejection ==
  lastOp = "append" =>
     \A i \in RejectedCutPoints(prevHistory) :
        LaterCutPoints(prevHistory, i) # {} =>
           RemovedByLastAppend >= SetMin(LaterCutPoints(prevHistory, i)) + 1

-----------------------------------------------------------------------------
(* Claims about summarizeConversationHistory (SpecRepair) *)

CountOf(h, role) == Cardinality({ i \in Indices(h) : At(h, i).role = role })

\* C20: summarizeConversationHistory leaves the stored transcript as it was;
\* it returns a system message; when its createChatCompletion call fails the
\* message is the fallback summary with the numbers of user, assistant and
\* tool messages of the transcript; on an empty transcript it returns the
\* fixed notice and makes no call.
C20_SummarizeLeavesTranscript ==
  lastOp = "summarize" =>
     /\ history = prevHistory
     /\ ret.message.role = "system"
     /\ ret.message.content # ""
     /\ prevHistory = <<>> =>
           /\ ret.message.content = "No conversation history yet."
           /\ ret.clientCalls = 0
     /\ prevHistory # <<>> => ret.clientCalls = 1
     /\ ret.clientFailed =>
           ret.message.content =
             "Conversation summary (fallback): "
               \o ToString(CountOf(prevHistory, "user")) \o " user messages, "
               \o ToString(CountOf(prevHistory, "assistant")) \o " assistant messages, "
               \o ToString(CountOf(prevHistory, "tool")) \o " tool interactions."

\* the call failed on a transcript with a tool exchange: the fallback summary
\* was returned
C20_Witness ==
  /\ lastOp = "summarize"
  /\ ret.clientFailed
  /\ CountOf(prevHistory, "tool") >= 1
  /\ CountOf(prevHistory, "assistant") >= 1
  /\ CountOf(prevHistory, "user") >= 1

-----------------------------------------------------------------------------
(* summarizeConversationHistory on transcripts whose assistant messages carry
   text next to their tool calls *)

SummaryAlphabet ==
  { UserMsg("q"),
    SystemMsg("The conversation has been reset due to an API error."),
    AssistantMsg("text", <<>>),
    AssistantMsg("", <<Call1>>),
    AssistantMsg("looking", <<Call2>>),
    ToolMsg(1, "ok"),
    ToolMsg(2, "ok") }

InitSummary ==
  /\ history \in SeqsUpTo(SummaryAlphabet, MaxLen)
  /\ prevHistory = <<>>
  /\ lastOp = "none"
  /\ ret = 0
  /\ steps = 0
  /\ LoopIdle
  /\ ExecIdle
  /\ ViewIdle
  /\ CtxIdle
  /\ ProcIdle

NextSummary == \E ok \in BOOLEAN : SummarizeConversationHistory(ok)

SpecSummary == InitSummary /\ [][NextSummary]_vars

\* the messages of h that are neither tool messages nor assistant messages
\* with tool calls and no text, in order
TextBearing(h) ==
  LET Kept(m) == m.role # "tool" /\ ~(HasToolCalls(m) /\ m.content = "")
  IN SelectSeq(h, Kept)

\* C34: the request summarizeConversationHistory sends holds no tool message
\* and no tool calls: after the instruction it consists of the role and the
\* content of every stored message that is not a tool message, in order, where
\* an assistant message with tool calls appears only when its content is not
\* empty.
C34_SummaryRequestWithoutTools ==
  (lastOp = "summarize" /\ prevHistory # <<>>) =>
     /\ \A k \in DOMAIN ret.request :
           /\ ret.request[k].role # "tool"
           /\ ret.request[k].tool_calls = <<>>
           /\ ret.request[k].tool_call_id = 0
     /\ Len(ret.request) = 1 + Len(TextBearing(prevHistory))
     /\ ret.request[1].role = "system"
     /\ \A k \in DOMAIN TextBearing(prevHistory) :
           /\ ret.request[k + 1].role = TextBearing(prevHistory)[k].role
           /\ ret.request[k + 1].content = TextBearing(prevHistory)[k].content

\* the transcript summarized held an assistant message with text and a tool
\* call, the response to that call, and a tool message without a call
C34_Witness ==
  /\ lastOp = "summarize"
  /\ prevHistory = <<AssistantMsg("looking", <<Call2>>), ToolMsg(2, "ok"), ToolMsg(1, "ok"),
                     UserMsg("q")>>
  /\ Len(ret.request) = 3
  /\ ret.request[2].content = "looking"

-----------------------------------------------------------------------------
(* The tool executor on its own: calls of executeToolWithTimeout, one at a time *)

\* the number of calls of executeToolWithTimeout
MaxToolRuns == 2

InitTimeout ==
  /\ history = <<>>
  /\ prevHistory = <<>>
  /\ lastOp = "none"
  /\ ret = 0
  /\ steps = 0
  /\ LoopIdle
  /\ ExecIdle
  /\ ViewIdle
  /\ CtxIdle
  /\ ProcIdle

\* executeToolWithTimeout(name, args, timeoutMs) is called: executeWithTimeout
\* arms the timer and calls executeTool
ExecuteToolWithTimeout(name) ==
  /\ toolRuns < MaxToolRuns
  /\ toolRuns = 0 \/ delivered # Pending
  /\ toolRuns' = toolRuns + 1
  /\ toolName' = name
  /\ timer' = "armed"
  /\ toolRun' = "running"
  /\ promise' = Pending
  /\ resolveCalls' = 0
  /\ delivered' = Pending
  /\ implementations' = implementations \cup { toolRuns + 1 }
  /\ UNCHANGED <<procVars, history, storeVars, loopVars, viewVars, ctxVars>>

\* the timer fires: resolve(timeout message)
TimerFires ==
  /\ timer = "armed"
  /\ timer' = "fired"
  /\ promise' = Resolve(promise, TimeoutMessage)
  /\ resolveCalls' = resolveCalls + 1
  /\ UNCHANGED <<procVars, history, storeVars, loopVars, viewVars, ctxVars, toolName, toolRun, delivered, toolRuns,
                 implementations>>

\* await fn() returns: clearTimeout, resolve(result)
ToolResolves(output) ==
  /\ toolRun = "running"
  /\ toolRun' = "resolved"
  /\ timer' = IF timer = "armed" THEN "cleared" ELSE timer
  /\ promise' = Resolve(promise, output)
  /\ resolveCalls' = resolveCalls + 1
  /\ implementations' = implementations \ { toolRuns }
  /\ UNCHANGED <<procVars, history, storeVars, loopVars, viewVars, ctxVars, toolName, delivered, toolRuns>>

\* await fn() throws: clearTimeout, resolve(error text)
ToolThrows(error) ==
  /\ toolRun = "running"
  /\ toolRun' = "threw"
  /\ timer' = IF timer = "armed" THEN "cleared" ELSE timer
  /\ promise' = Resolve(promise, ErrorText(error))
  /\ resolveCalls' = resolveCalls + 1
  /\ implementations' = implementations \ { toolRuns }
  /\ UNCHANGED <<procVars, history, storeVars, loopVars, viewVars, ctxVars, toolName, delivered, toolRuns>>

\* the await of executeToolWithTimeout ends: the value is returned, a
\* rejection is caught and returned as text
ReturnResult ==
  /\ promise # Pending
  /\ delivered = Pending
  /\ delivered' = IF promise = Rejected THEN ErrorText(Rejected) ELSE promise
  /\ UNCHANGED <<procVars, history, storeVars, loopVars, viewVars, ctxVars, toolName, toolRun, timer, promise,
                 resolveCalls, toolRuns, implementations>>

\* await fn() of an earlier call of executeWithTimeout ends, by return or by
\* throw: its timer has fired and its promise is settled, so that clearTimeout
\* and resolve have no effect
EarlierToolCompletes(n) ==
  /\ n \in implementations
  /\ n < toolRuns
  /\ implementations' = implementations \ { n }
  /\ UNCHANGED <<procVars, history, storeVars, loopVars, viewVars, ctxVars, toolName, toolRun, timer, promise,
                 resolveCalls, delivered, toolRuns>>

NextTimeout ==
  \/ \E name \in ExecutorTools : ExecuteToolWithTimeout(name)
  \/ TimerFires
  \/ \E output \in ToolOutputs(toolName) : ToolResolves(output)
  \/ \E error \in ToolErrors : ToolThrows(error)
  \/ ReturnResult
  \/ \E n \in 1 .. MaxToolRuns : EarlierToolCompletes(n)

SpecTimeout == InitTimeout /\ [][NextTimeout]_vars

-----------------------------------------------------------------------------
(* Claims about executeToolWithTimeout (SpecTimeout) *)

\* C16: executeToolWithTimeout never rejects and settles once: what it
\* returned for a call never changes, nor does a settled promise; when the
\* timer fires on a tool that has not completed the promise holds the timeout
\* message; when the tool throws first it holds the 'Error executing tool'
\* text; and what is returned is what the promise holds.
C16_SettlesOnceNeverRejects ==
  [][ /\ promise' # Rejected
      /\ delivered' # Rejected
      /\ (toolRuns' = toolRuns /\ promise # Pending) => promise' = promise
      /\ (toolRuns' = toolRuns /\ delivered # Pending) => delivered' = delivered
      /\ (timer = "armed" /\ timer' = "fired") =>
            /\ toolRun = "running"
            /\ promise' = TimeoutMessage
      /\ (timer = "armed" /\ toolRun = "running" /\ toolRun' = "threw") =>
            \E error \in ToolErrors : promise' = "Error executing tool: " \o error
      /\ (delivered = Pending /\ delivered' # Pending /\ toolRuns' = toolRuns) =>
            /\ delivered' = promise
            /\ delivered' # Pending
    ]_vars

\* the tool completed after the timer had fired and the timeout message had
\* been returned: the result delivered is still the timeout message
C16_Witness ==
  /\ timer = "fired"
  /\ toolRun = "resolved"
  /\ resolveCalls = 2
  /\ delivered = TimeoutMessage
  /\ promise = TimeoutMessage

-----------------------------------------------------------------------------
(* executeAgentLoop on a store that earlier invocations have filled *)

\* the messages of n iterations that each ran one list_dir call; the last
\* tool output is lastOutput
RECURSIVE PastRounds(_, _)
PastRounds(n, lastOutput) ==
  IF n = 0 THEN <<>>
  ELSE PastRounds(n - 1, "listing")
         \o <<AssistantMsg("", <<ToolCall(n, "list_dir", WellFormedArguments)>>),
              ToolMsg(n, lastOutput)>>

\* what an invocation of executeAgentLoop appends: the query, the assistant
\* message and the result of every tool round, and the closing answer unless
\* the iterations ran out first
PastInvocation(n, lastOutput, answered) ==
  <<UserMsg("q")>> \o PastRounds(n, lastOutput)
    \o (IF answered THEN <<AssistantMsg("answer", <<>>)>> ELSE <<>>)

\* the invocations that fit into MAX_ITERATIONS iterations
PastInvocations ==
  { <<n, lastOutput, answered>> \in
      (0 .. MAX_ITERATIONS) \X ToolOutputs("list_dir") \X BOOLEAN :
      /\ answered => n < MAX_ITERATIONS
      /\ n = 0 => lastOutput = "listing" }

\* the store after an earlier invocation: every message went through
\* addToConversationHistory; the earlier invocation is one of the events of
\* the run
InitResume ==
  /\ \E past \in PastInvocations :
        /\ history = AddAll(<<>>, PastInvocation(past[1], past[2], past[3]))
        /\ nextId = past[1] + 1
  /\ prevHistory = <<>>
  /\ lastOp = "none"
  /\ ret = 0
  /\ steps = 0
  /\ pc = "idle"
  /\ iterations = 0
  /\ lastError = "null"
  /\ loopComplete = FALSE
  /\ finalResponse = ""
  /\ assistantMessage = NoMessage
  /\ request = <<>>
  /\ apiError = "none"
  /\ chatCalls = 0
  /\ executed = <<>>
  /\ confirmation = "none"
  /\ returned = "none"
  /\ queries = 1
  /\ toolRounds = 0
  /\ apiErrors = 0
  /\ outage = FALSE
  /\ ExecIdle
  /\ ViewIdle
  /\ CtxIdle
  /\ ProcIdle

SpecResume == InitResume /\ [][Next]_vars

\* C21: the summarization pass of an iteration (clear, append the older
\* messages, summarize, clear, append the original messages one by one) leaves
\* the stored transcript as it was before the pass
C21_PassRestoresTranscript ==
  [][(pc = "loop" /\ pc' = "chat") => history' = history]_vars

\* the pass ran on a transcript longer than maxHistoryLength, so that the
\* appends of the pass ran the truncation scan
C21_Witness ==
  /\ pc = "chat"
  /\ Summarizes(history)
  /\ Len(history) > maxHistoryLength
  /\ request[2].role = "assistant"

-----------------------------------------------------------------------------
(* The chat view: the page of the webview, the message handler of
   ChatViewProvider and the invocations of executeAgentLoop it starts.  The
   provider answers every main call with a text message, so that an
   invocation makes one call. *)

\* sendMessage commands posted so far: those in flight and those handled
SendsPosted ==
  Len(SelectSeq(toHost, LAMBDA c : c = "sendMessage"))
    + Cardinality({ i \in DOMAIN handlers : handlers[i] # "none" })

\* the chat-completion calls in flight
CallsInFlight == { i \in DOMAIN handlers : handlers[i] = "chat" }

\* the page: sendMessage() on a click on Send or on Enter; the controls are
\* enabled
UserSendsMessage ==
  /\ ~inputDisabled
  /\ steps < MaxUserActions
  /\ SendsPosted < MaxSends
  /\ toHost' = Append(toHost, "sendMessage")
  /\ steps' = steps + 1
  /\ UNCHANGED <<procVars, history, prevHistory, lastOp, ret, loopVars, execVars, ctxVars,
                 messageHistory, inputDisabled, toView, handlers>>

\* the page: a click on Clear Chat
UserClearsChat ==
  /\ steps < MaxUserActions
  /\ toHost' = Append(toHost, "clearChat")
  /\ steps' = steps + 1
  /\ UNCHANGED <<procVars, history, prevHistory, lastOp, ret, loopVars, execVars, ctxVars,
                 messageHistory, inputDisabled, toView, handlers>>

\* onDidReceiveMessage, command sendMessage: handleUserMessage runs up to the
\* first await of executeAgentLoop (the query is appended, the loop sleeps)
HostReceivesSendMessage ==
  /\ toHost # <<>>
  /\ Head(toHost) = "sendMessage"
  /\ toHost' = Tail(toHost)
  /\ messageHistory' = Append(messageHistory, "user")
  /\ toView' = toView \o <<"html", "showProcessing">>
  /\ history' = addToConversationHistory(history, UserMsg("q"))
  /\ LET i == CHOOSE k \in DOMAIN handlers :
                 handlers[k] = "none" /\ \A j \in 1 .. (k - 1) : handlers[j] # "none"
     IN handlers' = [handlers EXCEPT ![i] = "sleep"]
  /\ UNCHANGED <<procVars, storeVars, loopVars, execVars, ctxVars, inputDisabled>>

\* onDidReceiveMessage, command clearChat
HostReceivesClearChat ==
  /\ toHost # <<>>
  /\ Head(toHost) = "clearChat"
  /\ toHost' = Tail(toHost)
  /\ messageHistory' = <<>>
  /\ toView' = Append(toView, "html")
  /\ UNCHANGED <<procVars, history, storeVars, loopVars, execVars, ctxVars, inputDisabled, handlers>>

\* an invocation wakes up, builds its request and starts the main call
HandlerCallsModel(i) ==
  /\ handlers[i] = "sleep"
  /\ handlers' = [handlers EXCEPT ![i] = "chat"]
  /\ request' = BuildRequest(history, "null", TRUE)
  /\ history' = HistoryAfterBuild(history)
  /\ UNCHANGED <<procVars, storeVars, execVars, ctxVars, messageHistory, inputDisabled, toHost, toView,
                 pc, iterations, lastError, loopComplete, finalResponse, assistantMessage,
                 apiError, chatCalls, executed, confirmation, returned, queries, toolRounds,
                 apiErrors, outage, nextId>>

\* the main call of an invocation returns a text message: it is appended,
\* executeAgentLoop returns and handleUserMessage displays the response
HandlerReturns(i) ==
  /\ handlers[i] = "chat"
  /\ handlers' = [handlers EXCEPT ![i] = "returned"]
  /\ history' = addToConversationHistory(history, AssistantMsg("answer", <<>>))
  /\ messageHistory' = Append(messageHistory, "assistant")
  /\ toView' = toView \o <<"hideProcessing", "html">>
  /\ UNCHANGED <<procVars, storeVars, loopVars, execVars, ctxVars, inputDisabled, toHost>>

\* the page receives what the host sent: a new document has its controls
\* enabled, showProcessing disables them, hideProcessing enables them
PageReceives ==
  /\ toView # <<>>
  /\ toView' = Tail(toView)
  /\ inputDisabled' = (Head(toView) = "showProcessing")
  /\ UNCHANGED <<procVars, history, storeVars, loopVars, execVars, ctxVars, messageHistory, toHost,
                 handlers>>

NextView ==
  \/ UserSendsMessage
  \/ UserClearsChat
  \/ HostReceivesSendMessage
  \/ HostReceivesClearChat
  \/ \E i \in DOMAIN handlers : HandlerCallsModel(i)
  \/ \E i \in DOMAIN handlers : HandlerReturns(i)
  \/ PageReceives

SpecView == Init /\ [][NextView]_vars

\* C22: handling the clearChat command of the chat view empties the stored
\* conversation transcript
C22_ClearChatEmptiesStore ==
  [][HostReceivesClearChat => history' = <<>>]_vars

\* C23: at most one chat-completion call of the session is in flight at any
\* time, over all invocations started from sendMessage commands
C23_OneCallInFlight == Cardinality(CallsInFlight) <= 1

-----------------------------------------------------------------------------
(* ContextFilesManager.  A path is the sequence of its segments, the pieces
   between the separators: "a/./b" is <<"a", ".", "b">>, "/a" is <<"", "a">>,
   "a/" is <<"a", "">> and the empty string is <<"">>. *)

\* the calls of addContextFile and clearContextFiles of a run
MaxFileOps == 3

IsAbsolute(path) == Len(path) >= 2 /\ path[1] = ""

HasTrailingSeparator(path) == Len(path) >= 2 /\ path[Len(path)] = ""

\* normalizeString of path.normalize: "." and empty segments are dropped, ".."
\* removes the segment before it; above the start, ".." is kept in a relative
\* path and dropped in an absolute one
RECURSIVE NormalizeSegments(_, _, _)
NormalizeSegments(segments, res, allowAboveRoot) ==
  IF segments = <<>> THEN res
  ELSE LET seg == Head(segments)
           rest == Tail(segments)
       IN IF seg = "" \/ seg = "."
          THEN NormalizeSegments(rest, res, allowAboveRoot)
          ELSE IF seg = ".."
               THEN IF res # <<>> /\ res[Len(res)] # ".."
                    THEN NormalizeSegments(rest, SubSeq(res, 1, Len(res) - 1), allowAboveRoot)
                    ELSE IF allowAboveRoot
                         THEN NormalizeSegments(rest, Append(res, ".."), allowAboveRoot)
                         ELSE NormalizeSegments(rest, res, allowAboveRoot)
               ELSE NormalizeSegments(rest, Append(res, seg), allowAboveRoot)

\* a variant of normalize that returns the path as it is written
normalizeAsWritten(path) == path

\* path.normalize (POSIX)
normalize(path) ==
  LET core == NormalizeSegments(path, <<>>, ~IsAbsolute(path)) IN
  IF path = <<"">> THEN <<".">>
  ELSE IF core = <<>>
       THEN IF IsAbsolute(path) THEN <<"", "">>
            ELSE IF HasTrailingSeparator(path) THEN <<".", "">> ELSE <<".">>
       ELSE (IF IsAbsolute(path) THEN <<"">> ELSE <<>>)
              \o core
              \o (IF HasTrailingSeparator(path) THEN <<"">> ELSE <<>>)

\* the paths handed to addContextFile
ContextPaths ==
  { <<"a", "b">>, <<"a", ".", "b">>, <<"a", "c", "..", "b">>, <<"a", "", "b">>,
    <<"a", "b", "">>, <<"", "a", "b">>, <<"..", "a">>, <<"c">> }

\* the arguments of addContextFile: a path, or a value that is not a string
\* (a tool call without the path argument), on which path.normalize throws
FilePathArguments ==
  { [string |-> TRUE, segments |-> path] : path \in ContextPaths }
    \cup { [string |-> FALSE, segments |-> <<>>] }

Range(f) == { f[k] : k \in DOMAIN f }

\* Set.prototype.add on the insertion-ordered set
SetAdd(files, path) == IF path \in Range(files) THEN files ELSE Append(files, path)

\* Array.from(this.contextFiles)
getContextFiles(files) == files

InitFiles ==
  /\ history = <<>>
  /\ prevHistory = <<>>
  /\ lastOp = "none"
  /\ ret = [string |-> FALSE, segments |-> <<>>]
  /\ steps = 0
  /\ LoopIdle
  /\ ExecIdle
  /\ ViewIdle
  /\ CtxIdle
  /\ ProcIdle

\* addContextFile(filePath); prevHistory keeps the set before the call and
\* ret the argument
AddContextFile(filePath) ==
  /\ steps < MaxFileOps
  /\ steps' = steps + 1
  /\ lastOp' = "addContextFile"
  /\ ret' = filePath
  /\ prevHistory' = contextFiles
  /\ IF filePath.string
     THEN /\ contextFiles' = SetAdd(contextFiles, normalize(filePath.segments))
          /\ lastEvent' = getContextFiles(SetAdd(contextFiles, normalize(filePath.segments)))
          /\ eventCount' = eventCount + 1
     ELSE UNCHANGED ctxVars
  /\ UNCHANGED <<procVars, history, loopVars, execVars, viewVars>>

\* clearContextFiles()
ClearContextFiles ==
  /\ steps < MaxFileOps
  /\ steps' = steps + 1
  /\ lastOp' = "clearContextFiles"
  /\ prevHistory' = contextFiles
  /\ contextFiles' = <<>>
  /\ lastEvent' = <<>>
  /\ eventCount' = eventCount + 1
  /\ UNCHANGED <<procVars, history, ret, loopVars, execVars, viewVars>>

NextFiles ==
  \/ \E filePath \in FilePathArguments : AddContextFile(filePath)
  \/ ClearContextFiles

SpecFiles == InitFiles /\ [][NextFiles]_vars

\* a path in normal form: no "." segment (but for the path "." itself), no
\* empty segment between two separators, ".." at the start of a relative path
\* only
IsNormalized(path) ==
  \/ path \in { <<".">>, <<".", "">> }
  \/ /\ Len(path) >= 1
     /\ \A k \in DOMAIN path :
           /\ path[k] # "."
           /\ path[k] = "" => (Len(path) >= 2 /\ (k = 1 \/ k = Len(path)))
           /\ path[k] = ".." => (path[1] # "" /\ \A j \in 1 .. (k - 1) : path[j] = "..")

\* every path of the list is in normal form, and no path is listed twice
EachNormalizedPathOnce(files) ==
  \A i, j \in DOMAIN files :
     /\ IsNormalized(files[i])
     /\ i # j => files[i] # files[j]

\* C24: getContextFiles holds every normalized path at most once; a call of
\* addContextFile never removes a path; clearContextFiles leaves the set
\* empty; every change of the set fires an event whose payload is the list
\* after the change
C24_ContextFileSet ==
  /\ [](EachNormalizedPathOnce(getContextFiles(contextFiles)))
  /\ [][/\ lastOp' = "addContextFile" => Range(contextFiles) \subseteq Range(contextFiles')
        /\ lastOp' = "clearContextFiles" => contextFiles' = <<>>
        /\ contextFiles' # contextFiles =>
             /\ eventCount' = eventCount + 1
             /\ lastEvent' = getContextFiles(contextFiles')]_vars

\* a path that is in the set already was added under another spelling: the
\* set is unchanged and the event was fired
C24_Witness ==
  /\ lastOp = "addContextFile"
  /\ ret.string
  /\ normalize(ret.segments) # ret.segments
  /\ normalize(ret.segments) \in Range(prevHistory)
  /\ contextFiles = prevHistory
  /\ lastEvent = contextFiles
  /\ eventCount >= 2

-----------------------------------------------------------------------------
(* More claims about the repair operations (SpecRepair) *)

IncompleteCallIds(h) ==
  UNION { CallIds(At(h, i)) : i \in { j \in Indices(h) : IncompleteToolCall(At(h, j)) } }

\* a transcript without defect: the pairing invariant holds, no message
\* stands between a tool call and a response to it, and no tool call is
\* incomplete
ValidTranscript(h) ==
  /\ PairingInvariant(h)
  /\ ResponsesFollowCalls(h)
  /\ NoIncompleteToolCall(h)

C27_IncompleteCallsRemoved ==
  lastOp = "validate" =>
     /\ NoIncompleteToolCall(history)
     /\ \A i \in Indices(history) :
           At(history, i).role = "tool" =>
              At(history, i).tool_call_id \notin IncompleteCallIds(prevHistory)

-----------------------------------------------------------------------------
(* The confirmation-required tool names (SpecTimeout) *)

\* C26: ToolExecutor.requiresUserConfirmation is true for create_file,
\* update_file, create_directory and run_command and false for every other
\* tool name, and these are the names of BREAKING_CHANGE_TOOLS
C26_ConfirmationSets ==
  toolName # "none" =>
     /\ toolRequiresUserConfirmation(toolName) <=>
          toolName \in { "create_file", "update_file", "create_directory", "run_command" }
     /\ toolRequiresUserConfirmation(toolName) <=> toolName \in BREAKING_CHANGE_TOOLS

\* the executor ran the shell command tool, then a tool that only reads
C26_Witness ==
  /\ toolRuns = 2
  /\ toolName = "view_file"
  /\ ~toolRequiresUserConfirmation(toolName)
  /\ toolRequiresUserConfirmation("run_command")

-----------------------------------------------------------------------------
(* ToolCallProcessorService.processToolCalls, call by call, on top of the
   tool executor *)

\* the longest list of tool calls processToolCalls is called with
MaxBatchLen == 2

ReadUrlCall == [name |-> "read_url_content", arguments |-> WellFormedArguments]

\* the tool calls of the lists processToolCalls is called with
BatchCalls == { ListDirCall, BadListDirCall, ReadUrlCall }

\* the toolCalls arguments of processToolCalls
Batches ==
  { WithIds(calls, 1) : calls \in SeqsUpTo(BatchCalls, MaxBatchLen) \ { <<>> } }

\* the tool call the for loop of processToolCalls stands at
CurrentCall == batch[Len(batchResults) + 1]

\* the calls of executeToolWithTimeout made for the calls before the current one
ExecutorCallsBefore == Len(HandedToExecutor(SubSeq(batch, 1, Len(batchResults))))

\* processToolCalls(calls, breakingChangeTools) is called
ProcessToolCalls(calls) ==
  /\ processing = "idle"
  /\ batch' = calls
  /\ batchResults' = <<>>
  /\ processing' = "running"
  /\ UNCHANGED <<history, storeVars, loopVars, execVars, viewVars, ctxVars>>

\* JSON.parse succeeds: executeToolWithTimeout is called with the name of the
\* current call
CallExecutor ==
  /\ processing = "running"
  /\ Len(batchResults) < Len(batch)
  /\ ParsesAsJSON(CurrentCall.arguments)
  /\ toolRuns = ExecutorCallsBefore
  /\ ExecuteToolWithTimeout(CurrentCall.name)

\* the await of executeToolWithTimeout has ended: results.push with success true
RecordResult ==
  /\ processing = "running"
  /\ Len(batchResults) < Len(batch)
  /\ ParsesAsJSON(CurrentCall.arguments)
  /\ toolRuns = ExecutorCallsBefore + 1
  /\ delivered # Pending
  /\ batchResults' = Append(batchResults,
                            [tool_call_id |-> CurrentCall.id, output |-> delivered,
                             success |-> TRUE])
  /\ UNCHANGED <<history, storeVars, loopVars, execVars, viewVars, ctxVars, batch, processing>>

\* a variant of RecordFailure in which the error of JSON.parse leaves
\* processToolCalls
ParseErrorPropagates ==
  /\ processing = "running"
  /\ Len(batchResults) < Len(batch)
  /\ ~ParsesAsJSON(CurrentCall.arguments)
  /\ processing' = "threw"
  /\ UNCHANGED <<history, storeVars, loopVars, execVars, viewVars, ctxVars, batch, batchResults>>

\* JSON.parse throws: the catch of the loop body, results.push with success
\* false
RecordFailure ==
  /\ processing = "running"
  /\ Len(batchResults) < Len(batch)
  /\ ~ParsesAsJSON(CurrentCall.arguments)
  /\ batchResults' = Append(batchResults,
                            [tool_call_id |-> CurrentCall.id,
                             output |-> "Error: " \o ParseErrorMessage, success |-> FALSE])
  /\ UNCHANGED <<history, storeVars, loopVars, execVars, viewVars, ctxVars, batch, processing>>

\* the for loop has ended: return { requiresUserConfirmation: false, results }
ReturnResults ==
  /\ processing = "running"
  /\ Len(batchResults) = Len(batch)
  /\ processing' = "returned"
  /\ UNCHANGED <<history, storeVars, loopVars, execVars, viewVars, ctxVars, batch, batchResults>>

NextBatch ==
  \/ \E calls \in Batches : ProcessToolCalls(calls)
  \/ CallExecutor
  \/ TimerFires
  \/ \E output \in ToolOutputs(toolName) : ToolResolves(output)
  \/ \E error \in ToolErrors : ToolThrows(error)
  \/ ReturnResult
  \/ \E n \in 1 .. MaxToolRuns : EarlierToolCompletes(n)
  \/ RecordResult
  \/ RecordFailure
  \/ ReturnResults

SpecBatch == Init /\ [][NextBatch]_vars

-----------------------------------------------------------------------------
(* Claims about processToolCalls (SpecBatch) *)

\* the calls of the list whose argument text is not well-formed
MalformedCalls == { k \in DOMAIN batch : ~ParsesAsJSON(batch[k].arguments) }

\* C32: a parse failure is local: processToolCalls never throws; the executor
\* is invoked for the current call only, and only when its arguments parse;
\* and when processToolCalls returns there is one result per call in call
\* order, the result of a call with malformed arguments is success=false with
\* output 'Error: <message of the parse error>' under the id of the call, and
\* the executor was invoked once for each of the other calls.
C32_ParseFailureLocal ==
  /\ [](processing # "threw")
  /\ [][toolRuns' # toolRuns =>
          /\ Len(batchResults) < Len(batch)
          /\ ParsesAsJSON(CurrentCall.arguments)
          /\ toolName' = CurrentCall.name
          /\ toolRuns' = toolRuns + 1
      ]_vars
  /\ [](processing = "returned" =>
          /\ Len(batchResults) = Len(batch)
          /\ toolRuns = Len(batch) - Cardinality(MalformedCalls)
          /\ \A k \in DOMAIN batch : batchResults[k].tool_call_id = batch[k].id
          /\ \A k \in DOMAIN batch : batchResults[k].success <=> k \notin MalformedCalls
          /\ \A k \in MalformedCalls :
                batchResults[k].output = "Error: " \o ParseErrorMessage)

\* processToolCalls has returned for a list whose first call has malformed
\* arguments: the second call was run by the executor
C32_Witness ==
  /\ processing = "returned"
  /\ Len(batch) = 2
  /\ MalformedCalls = { 1 }
  /\ toolRuns = 1
  /\ batchResults[2].success
  /\ batchResults[2].output \in ToolOutputs(batch[2].name)

\* C33: no two tool implementations execute at the same time, also after a
\* call was reported as timed out
C33_OneImplementationAtATime == Cardinality(implementations) <= 1

-----------------------------------------------------------------------------
(* More claims about executeAgentLoop (Spec) *)

\* an iteration has ended in Success (an assistant message without tool
\* calls, or a done call) or in ErrorReset (a protocol error of the main
\* call): loopComplete is set and the invocation has not returned yet
TerminalReached == loopComplete /\ pc # "idle"

\* C31: terminal states are absorbing: loopComplete is set at the end of an
\* iteration only, and once it is set the only step of the invocation is the
\* return: no further main call, no further tool handed to the executor,
\* nothing appended to the transcript, and the response is the one the
\* terminal iteration chose.
C31_TerminalAbsorbing ==
  /\ [](TerminalReached => pc = "loop")
  /\ [][TerminalReached =>
          /\ pc' = "idle"
          /\ returned' = "value"
          /\ history' = history
          /\ chatCalls' = chatCalls
          /\ iterations' = iterations
          /\ executed' = executed
          /\ nextId' = nextId
          /\ request' = <<>>
          /\ finalResponse' = finalResponse
      ]_vars

\* the second iteration ended with a done call after a first iteration that
\* ran tools: iterations are left, and the invocation is about to return
C31_Witness ==
  /\ TerminalReached
  /\ iterations = 2
  /\ iterations < MAX_ITERATIONS
  /\ Len(executed) = 1
  /\ executed[1].name = "done"
  /\ Len(history) >= 5

-----------------------------------------------------------------------------
(* executeAgentLoop in the middle of an invocation that has run tool rounds *)

\* the tool rounds the running invocation has completed at the start
MaxRoundsDone == 5

\* the running invocation has appended its query and completed n iterations,
\* each with one list_dir call that succeeded
InitUnderway ==
  /\ \E n \in 0 .. MaxRoundsDone, lastOutput \in ToolOutputs("list_dir") :
        /\ n = 0 => lastOutput = "listing"
        /\ history = AddAll(<<>>, PastInvocation(n, lastOutput, FALSE))
        /\ iterations = n
        /\ chatCalls = n
        /\ nextId = n + 1
        /\ executed = IF n = 0 THEN <<>>
                      ELSE <<ToolCall(n, "list_dir", WellFormedArguments)>>
  /\ prevHistory = <<>>
  /\ lastOp = "none"
  /\ ret = 0
  /\ steps = 0
  /\ pc = "loop"
  /\ lastError = "null"
  /\ loopComplete = FALSE
  /\ finalResponse = ""
  /\ assistantMessage = NoMessage
  /\ request = <<>>
  /\ apiError = "none"
  /\ confirmation = "none"
  /\ returned = "none"
  /\ queries = 1
  /\ toolRounds = 0
  /\ apiErrors = 0
  /\ outage = FALSE
  /\ ExecIdle
  /\ ViewIdle
  /\ CtxIdle
  /\ ProcIdle

SpecUnderway == InitUnderway /\ [][Next]_vars

\* the stored transcript holds a query
QueryStored == \E i \in Indices(history) : At(history, i) = UserMsg("q")

\* C36: while an invocation runs and has not cleared the store after a
\* protocol error, the user message with its query is in the stored transcript
C36_QueryStaysStored == (pc # "idle" /\ ~loopComplete) => QueryStored

====
